---- MODULE Spec2Model ----
(***************************************************************************)
(* Model of the document-to-structured-data pipeline of                    *)
(* src/data_processor.py (FinancialDataProcessor and create_sample_data).  *)
(*                                                                         *)
(* Text is modelled by TLA+ strings, a dataframe cell by a record          *)
(* [isna, s] where s is str(cell), a float by a record (see Fin).          *)
(***************************************************************************)
EXTENDS Integers, Sequences, FiniteSets, TLC

VARIABLES pc, arg, result, caps, supported_formats, invoked,
          financial_data, column_mapping, row_index, io, calls

vars == <<pc, arg, result, caps, supported_formats, invoked,
          financial_data, column_mapping, row_index, io, calls>>

(***************************************************************************)
(* Bounds of the model.                                                    *)
(***************************************************************************)
MaxLen == 4

MaxRows == 2

MaxWords == 2

MaxSheets == 2

MaxPages == 2

MaxCalls == 2

(***************************************************************************)
(* Strings.                                                                *)
(***************************************************************************)
Char(s, i) == SubSeq(s, i, i)

Digits == {"0", "1", "2", "3", "4", "5", "6", "7", "8", "9"}

DigitVal(c) ==
    CASE c = "0" -> 0 [] c = "1" -> 1 [] c = "2" -> 2 [] c = "3" -> 3
      [] c = "4" -> 4 [] c = "5" -> 5 [] c = "6" -> 6 [] c = "7" -> 7
      [] c = "8" -> 8 [] c = "9" -> 9

UpperLetters == "ABCDEFGHIJKLMNOPQRSTUVWXYZ"

LowerLetters == "abcdefghijklmnopqrstuvwxyz"

LowerMap ==
    [c \in {Char(UpperLetters, i) : i \in 1..26} |->
        Char(LowerLetters, CHOOSE i \in 1..26 : Char(UpperLetters, i) = c)]

LowerChar(c) == IF c \in DOMAIN LowerMap THEN LowerMap[c] ELSE c

RECURSIVE lower(_)
lower(s) ==
    IF Len(s) = 0 THEN ""
    ELSE IF Len(s) = 1 THEN LowerChar(s)
    ELSE lower(SubSeq(s, 1, Len(s) \div 2)) \o lower(SubSeq(s, Len(s) \div 2 + 1, Len(s)))

Whitespace == {" ", "\t", "\n"}

RECURSIVE lstrip(_)
lstrip(s) ==
    IF Len(s) > 0 /\ Char(s, 1) \in Whitespace
    THEN lstrip(SubSeq(s, 2, Len(s))) ELSE s

RECURSIVE rstrip(_)
rstrip(s) ==
    IF Len(s) > 0 /\ Char(s, Len(s)) \in Whitespace
    THEN rstrip(SubSeq(s, 1, Len(s) - 1)) ELSE s

strip(s) == rstrip(lstrip(s))

\* re.sub(r'[...]', '', s): delete every character of s that is in cs
RECURSIVE re_sub_remove(_, _)
re_sub_remove(cs, s) ==
    IF Len(s) = 0 THEN ""
    ELSE (IF Char(s, 1) \in cs THEN "" ELSE Char(s, 1))
             \o re_sub_remove(cs, SubSeq(s, 2, Len(s)))

startswith(s, p) == Len(s) >= Len(p) /\ SubSeq(s, 1, Len(p)) = p

endswith(s, p) == Len(s) >= Len(p) /\ SubSeq(s, Len(s) - Len(p) + 1, Len(s)) = p

\* Python's  k in s  on strings
contains(s, k) ==
    \E i \in 0..(Len(s) - Len(k)) : SubSeq(s, i + 1, i + Len(k)) = k

(***************************************************************************)
(* Floats.  A finite float is m * 10^(-e) with m not divisible by 10       *)
(* (m = 0 has e = 0), so that equal numbers are equal records.             *)
(***************************************************************************)
None == [k |-> "none", m |-> 0, e |-> 0]

NaN == [k |-> "nan", m |-> 0, e |-> 0]

Inf(sign) == [k |-> "inf", m |-> sign, e |-> 0]

RECURSIVE Normal(_, _)
Normal(m, e) ==
    IF m = 0 THEN [k |-> "fin", m |-> 0, e |-> 0]
    ELSE IF m % 10 = 0 THEN Normal(m \div 10, e - 1)
    ELSE [k |-> "fin", m |-> m, e |-> e]

Fin(m, e) == Normal(m, e)

RECURSIVE Pow10(_)
Pow10(n) == IF n <= 0 THEN 1 ELSE 10 * Pow10(n - 1)

Max(a, b) == IF a >= b THEN a ELSE b

\* a + b on floats (exact on the finite values of the model)
fadd(a, b) ==
    IF a.k = "nan" \/ b.k = "nan" THEN NaN
    ELSE IF a.k = "inf" /\ b.k = "inf"
         THEN (IF a.m = b.m THEN a ELSE NaN)
    ELSE IF a.k = "inf" THEN a
    ELSE IF b.k = "inf" THEN b
    ELSE LET ee == Max(a.e, b.e)
         IN  Fin(a.m * Pow10(ee - a.e) + b.m * Pow10(ee - b.e), ee)

\* abs(a)
fabs(a) ==
    IF a.k = "fin" THEN [a EXCEPT !.m = IF a.m < 0 THEN -a.m ELSE a.m]
    ELSE IF a.k = "inf" THEN Inf(1)
    ELSE a

\* a > 0 and a < 0 (both false on nan)
fpos(a) == (a.k = "fin" /\ a.m > 0) \/ (a.k = "inf" /\ a.m > 0)

fneg(a) == (a.k = "fin" /\ a.m < 0) \/ (a.k = "inf" /\ a.m < 0)

Zero == Fin(0, 0)

\* Python's float(str): optional sign, then inf / infinity / nan in any
\* case, or digits with at most one decimal point and at least one digit;
\* a ValueError is None.  (No exponent and no digit-group underscore:
\* the input alphabets of the model have neither.)
RECURSIVE ParseDigits(_, _, _, _, _)
ParseDigits(s, m, e, seenPoint, seenDigit) ==
    IF Len(s) = 0 THEN (IF seenDigit THEN Fin(m, e) ELSE None)
    ELSE LET c == Char(s, 1)
             rest == SubSeq(s, 2, Len(s))
         IN  IF c \in Digits
             THEN ParseDigits(rest, 10 * m + DigitVal(c),
                              IF seenPoint THEN e + 1 ELSE e, seenPoint, TRUE)
             ELSE IF c = "." /\ ~seenPoint
             THEN ParseDigits(rest, m, e, TRUE, seenDigit)
             ELSE None

fnegate(a) ==
    IF a.k = "fin" THEN [a EXCEPT !.m = -a.m]
    ELSE IF a.k = "inf" THEN Inf(-a.m)
    ELSE a

float(s) ==
    LET signed == Len(s) > 0 /\ Char(s, 1) \in {"+", "-"}
        minus  == Len(s) > 0 /\ Char(s, 1) = "-"
        body   == IF signed THEN SubSeq(s, 2, Len(s)) ELSE s
        low    == lower(body)
        mag    == IF low \in {"inf", "infinity"} THEN Inf(1)
                  ELSE IF low = "nan" THEN NaN
                  ELSE ParseDigits(body, 0, 0, FALSE, FALSE)
    IN  IF mag = None THEN None
        ELSE IF minus THEN fnegate(mag) ELSE mag

(***************************************************************************)
(* Dataframe cells: a missing cell (NaN / None) or a value, with its str()  *)
(* and its Python type.                                                    *)
(***************************************************************************)
Cell(s) == [isna |-> FALSE, s |-> s, t |-> "str"]

NaNCell == [isna |-> TRUE, s |-> "nan", t |-> "float"]

NoneCell == [isna |-> TRUE, s |-> "None", t |-> "NoneType"]

\* a cell of an integer column
IntCell(s) == [isna |-> FALSE, s |-> s, t |-> "int"]

\* a cell of a boolean column
BoolCell(b) == [isna |-> FALSE, s |-> IF b THEN "True" ELSE "False", t |-> "bool"]

\* pd.isna(x) and str(x)
isna(x) == x.isna

str(x) == x.s

(***************************************************************************)
(* FinancialDataProcessor._clean_amount                                    *)
(***************************************************************************)
clean_amount(amount_raw) ==
    IF isna(amount_raw) THEN None
    ELSE LET s1 == strip(str(amount_raw))
             s2 == re_sub_remove({"$", ","} \cup Whitespace, s1)
             s3 == IF startswith(s2, "(") /\ endswith(s2, ")")
                   THEN "-" \o SubSeq(s2, 2, Len(s2) - 1)
                   ELSE s2
         IN  float(s3)

(***************************************************************************)
(* FinancialDataProcessor._clean_date                                      *)
(***************************************************************************)
IsDigitStr(s) == Len(s) > 0 /\ \A i \in 1..Len(s) : Char(s, i) \in Digits

RECURSIVE ToInt(_)
ToInt(s) ==
    IF Len(s) = 0 THEN 0
    ELSE 10 * ToInt(SubSeq(s, 1, Len(s) - 1)) + DigitVal(Char(s, Len(s)))

NaT == [k |-> "NaT", iso |-> ""]

ValidYMD(y, m, d) ==
    /\ IsDigitStr(y) /\ IsDigitStr(m) /\ IsDigitStr(d)
    /\ ToInt(m) \in 1..12
    /\ ToInt(d) \in 1..31

\* pd.to_datetime(s, errors='coerce') followed by strftime('%Y-%m-%d'):
\* the ISO form YYYY-MM-DD and the US form MM/DD/YYYY are dates, any other
\* text of the model is coerced to NaT.
to_datetime(s) ==
    IF /\ Len(s) = 10 /\ Char(s, 5) = "-" /\ Char(s, 8) = "-"
       /\ ValidYMD(SubSeq(s, 1, 4), SubSeq(s, 6, 7), SubSeq(s, 9, 10))
    THEN [k |-> "date", iso |-> s]
    ELSE IF /\ Len(s) = 10 /\ Char(s, 3) = "/" /\ Char(s, 6) = "/"
            /\ ValidYMD(SubSeq(s, 7, 10), SubSeq(s, 1, 2), SubSeq(s, 4, 5))
    THEN [k |-> "date",
          iso |-> SubSeq(s, 7, 10) \o "-" \o SubSeq(s, 1, 2) \o "-" \o SubSeq(s, 4, 5)]
    ELSE NaT

\* truth value of a cell:  if date_raw  (a non-empty string is true)
truthy(x) == ~isna(x) /\ Len(str(x)) > 0 /\ x # BoolCell(FALSE)

\* a date that does not parse reported as "Unknown"
clean_date_unknown_on_failure(date_raw, raises) ==
    IF isna(date_raw) THEN "Unknown"
    ELSE IF raises
         THEN (IF truthy(date_raw) THEN str(date_raw) ELSE "Unknown")
    ELSE LET date_obj == to_datetime(str(date_raw))
         IN  IF date_obj = NaT THEN "Unknown" ELSE date_obj.iso

\* raises: the datetime conversion raised inside the try block
clean_date(date_raw, raises) ==
    IF isna(date_raw) THEN "Unknown"
    ELSE IF raises
         THEN (IF truthy(date_raw) THEN str(date_raw) ELSE "Unknown")
    ELSE LET date_obj == to_datetime(str(date_raw))
         IN  IF date_obj = NaT THEN str(date_raw) ELSE date_obj.iso

(***************************************************************************)
(* FinancialDataProcessor.category_keywords and                            *)
(* FinancialDataProcessor._auto_categorize_transaction                     *)
(***************************************************************************)
category_keywords == <<
    [category |-> "Housing",
     keywords |-> <<"rent", "mortgage", "property tax", "hoa", "utilities",
                    "electric", "gas", "water", "internet", "cable">>],
    [category |-> "Transportation",
     keywords |-> <<"gas", "fuel", "uber", "lyft", "taxi", "bus", "train",
                    "car payment", "auto insurance", "parking">>],
    [category |-> "Food",
     keywords |-> <<"grocery", "restaurant", "food", "dining", "coffee",
                    "lunch", "dinner", "breakfast", "fast food">>],
    [category |-> "Healthcare",
     keywords |-> <<"medical", "doctor", "hospital", "pharmacy",
                    "health insurance", "dental", "vision">>],
    [category |-> "Entertainment",
     keywords |-> <<"movie", "netflix", "spotify", "gaming", "concert",
                    "theater", "streaming">>],
    [category |-> "Shopping",
     keywords |-> <<"amazon", "target", "walmart", "mall", "store",
                    "clothing", "electronics">>],
    [category |-> "Debt Payment",
     keywords |-> <<"credit card", "loan payment", "student loan", "debt",
                    "financing">>],
    [category |-> "Income",
     keywords |-> <<"salary", "paycheck", "bonus", "refund", "deposit",
                    "income", "wages">>],
    [category |-> "Savings",
     keywords |-> <<"savings", "investment", "retirement", "401k", "ira",
                    "emergency fund">>] >>

\* any(keyword in description_lower for keyword in keywords)
any_keyword_in(keywords, description_lower) ==
    \E j \in 1..Len(keywords) : contains(description_lower, keywords[j])

default_category(amount) == IF fpos(amount) THEN "Income" ELSE "Other Expenses"

\* the for loop over category_keywords.items(), from entry i on
RECURSIVE categorize_from(_, _, _)
categorize_from(i, description_lower, amount) ==
    IF i > Len(category_keywords) THEN default_category(amount)
    ELSE IF any_keyword_in(category_keywords[i].keywords, description_lower)
    THEN category_keywords[i].category
    ELSE categorize_from(i + 1, description_lower, amount)

\* the keywords compared with the description as written
auto_categorize_case_sensitive(description, amount) ==
    IF Len(description) = 0 THEN default_category(amount)
    ELSE categorize_from(1, description, amount)

auto_categorize_transaction(description, amount) ==
    IF Len(description) = 0 THEN default_category(amount)
    ELSE categorize_from(1, lower(description), amount)

(***************************************************************************)
(* Results.  As in the code, a result is an error exactly when it has the  *)
(* key "error".                                                            *)
(***************************************************************************)
IsError(r) == "error" \in DOMAIN r

processor_capabilities ==
    [csv_support |-> caps.PANDAS_AVAILABLE, excel_support |-> caps.EXCEL_AVAILABLE,
     pdf_support |-> caps.PDF_AVAILABLE, word_support |-> caps.DOCX_AVAILABLE]

\* FinancialDataProcessor._create_error_response (the timestamp is left out)
create_error_response(error_type, message, suggestions) ==
    [error |-> error_type, message |-> message, suggestions |-> suggestions,
     error_details |-> [processor_capabilities |-> processor_capabilities]]

(***************************************************************************)
(* Dataframes: column names and rows of cells (one cell per column).       *)
(***************************************************************************)
Min(a, b) == IF a <= b THEN a ELSE b

\* position of the column called name (the first one of that name)
ColIndex(df, name) ==
    CHOOSE i \in 1..Len(df.columns) :
        /\ df.columns[i] = name
        /\ \A j \in 1..(i - 1) : df.columns[j] # name

\* row[name]
RowGet(df, row, name) == row[ColIndex(df, name)]

\* df[name]
Column(df, name) == [i \in 1..Len(df.rows) |-> RowGet(df, df.rows[i], name)]

NotNa(c) == ~isna(c)

dropna(cells) == SelectSeq(cells, NotNa)

head(cells, n) == SubSeq(cells, 1, Min(n, Len(cells)))

\* pd.to_numeric(x, errors='coerce') on one value
to_numeric(c) ==
    IF c.t = "bool" THEN Fin(IF c = BoolCell(TRUE) THEN 1 ELSE 0, 0)
    ELSE LET v == float(strip(str(c))) IN IF v = None THEN NaN ELSE v

(***************************************************************************)
(* FinancialDataProcessor._detect_csv_columns                              *)
(***************************************************************************)
\* the alias memo missing from the description role
column_patterns_without_memo == <<
    [role |-> "date",
     patterns |-> <<"date", "transaction_date", "posting_date", "trans_date",
                    "dt", "timestamp">>],
    [role |-> "amount",
     patterns |-> <<"amount", "transaction_amount", "debit", "credit", "value",
                    "sum", "total", "amt">>],
    [role |-> "description",
     patterns |-> <<"description", "details", "transaction_details",
                    "desc", "note">>],
    [role |-> "category",
     patterns |-> <<"category", "type", "transaction_type", "class",
                    "classification", "cat">>] >>

column_patterns == <<
    [role |-> "date",
     patterns |-> <<"date", "transaction_date", "posting_date", "trans_date",
                    "dt", "timestamp">>],
    [role |-> "amount",
     patterns |-> <<"amount", "transaction_amount", "debit", "credit", "value",
                    "sum", "total", "amt">>],
    [role |-> "description",
     patterns |-> <<"description", "memo", "details", "transaction_details",
                    "desc", "note">>],
    [role |-> "category",
     patterns |-> <<"category", "type", "transaction_type", "class",
                    "classification", "cat">>] >>

required_columns == {"date", "amount"}

SampleSize == 10

\* columns = [col.lower().strip() for col in df.columns]
lowered_columns(df) == [i \in 1..Len(df.columns) |-> strip(lower(df.columns[i]))]

\* columns.index(col)
index(columns, col) ==
    CHOOSE i \in 1..Len(columns) :
        columns[i] = col /\ \A j \in 1..(i - 1) : columns[j] # col

NoBest == [best_score |-> 0, best_match |-> ""]

\* a column replacing the best one on an equal score
match_step_latest_on_ties(df, columns, patterns, ci, pj, best) ==
    LET col == columns[ci]
        pattern == patterns[pj]
    IN  IF contains(col, pattern) \/ contains(pattern, col)
        THEN LET score == IF contains(col, pattern) THEN Len(pattern) ELSE Len(col)
             IN  IF score >= best.best_score
                 THEN [best_score |-> score,
                       best_match |-> df.columns[index(columns, col)]]
                 ELSE best
        ELSE best

\* one pass of the inner loops: column ci against pattern pj
match_step(df, columns, patterns, ci, pj, best) ==
    LET col == columns[ci]
        pattern == patterns[pj]
    IN  IF contains(col, pattern) \/ contains(pattern, col)
        THEN LET score == IF contains(col, pattern) THEN Len(pattern) ELSE Len(col)
             IN  IF score > best.best_score
                 THEN [best_score |-> score,
                       best_match |-> df.columns[index(columns, col)]]
                 ELSE best
        ELSE best

\* for col in columns: for pattern in patterns: ...   (pos counts the pairs)
RECURSIVE best_match_from(_, _, _, _, _)
best_match_from(df, columns, patterns, pos, best) ==
    IF pos >= Len(columns) * Len(patterns) THEN best
    ELSE best_match_from(df, columns, patterns, pos + 1,
             match_step(df, columns, patterns,
                        (pos \div Len(patterns)) + 1, (pos % Len(patterns)) + 1,
                        best))

best_match_for(df, i) ==
    best_match_from(df, lowered_columns(df), column_patterns[i].patterns, 0, NoBest)

\* the dictionary built by the loop over column_patterns
matched_columns(df) ==
    LET best == [i \in 1..Len(column_patterns) |-> best_match_for(df, i).best_match]
        found == {i \in 1..Len(column_patterns) : Len(best[i]) > 0}
    IN  [r \in {column_patterns[i].role : i \in found} |->
            best[CHOOSE i \in found : column_patterns[i].role = r]]

NoMapping == [none |-> TRUE]

IsMapping(m) == "none" \notin DOMAIN m

\* the validation of the amount column
amount_is_numeric(df, amount_col) ==
    LET sample_amounts == head(dropna(Column(df, amount_col)), SampleSize)
    IN  \E i \in 1..Len(sample_amounts) : to_numeric(sample_amounts[i]) # NaN

\* only the amount role required
detect_csv_columns_amount_only(df) ==
    LET mapping == matched_columns(df)
    IN  IF "amount" \notin DOMAIN mapping THEN NoMapping
        ELSE IF ~amount_is_numeric(df, mapping["amount"]) THEN NoMapping
        ELSE mapping

detect_csv_columns(df) ==
    LET mapping == matched_columns(df)
    IN  IF ~(required_columns \subseteq DOMAIN mapping) THEN NoMapping
        ELSE IF ~amount_is_numeric(df, mapping["amount"]) THEN NoMapping
        ELSE mapping

(***************************************************************************)
(* FinancialDataProcessor._extract_transactions_from_dataframe             *)
(***************************************************************************)
EmptyDict == [x \in {} |-> Zero]

\* the initial structure counting the header line as a row
new_financial_data_counting_header(df) ==
    [transactions |-> <<>>,
     total_income |-> Zero,
     total_expenses |-> Zero,
     categories |-> EmptyDict,
     processing_info |->
        [rows_processed |-> Len(df.rows) + 1,
         successful_transactions |-> 0,
         skipped_rows |-> 0,
         data_quality_issues |-> <<>>]]

new_financial_data(df) ==
    [transactions |-> <<>>,
     total_income |-> Zero,
     total_expenses |-> Zero,
     categories |-> EmptyDict,
     processing_info |->
        [rows_processed |-> Len(df.rows),
         successful_transactions |-> 0,
         skipped_rows |-> 0,
         data_quality_issues |-> <<>>]]

\* categories[category] += abs_amount, or = abs_amount for a new key
add_category(categories, category, abs_amount) ==
    IF category \in DOMAIN categories
    THEN [categories EXCEPT ![category] = fadd(@, abs_amount)]
    ELSE [c \in DOMAIN categories \cup {category} |->
             IF c = category THEN abs_amount ELSE categories[c]]

\* the cell of the category column taken as it is, blank or not
row_category_as_provided(category, description, amount) == category

\* the category the row gets: the cell of the category column, or the
\* classifier when there is no such column or the cell is blank
row_category(category, description, amount) ==
    IF Len(category) = 0 \/ lower(category) \in {"nan", "none", ""}
    THEN auto_categorize_transaction(description, amount)
    ELSE category

\* the body of the loop over df.iterrows() for one row
process_row(fd, df, mapping, row, raises) ==
    LET amount_raw == RowGet(df, row, mapping["amount"])
        date_raw == RowGet(df, row, mapping["date"])
        description == IF "description" \in DOMAIN mapping
                       THEN strip(str(RowGet(df, row, mapping["description"])))
                       ELSE ""
        category0 == IF "category" \in DOMAIN mapping
                     THEN strip(str(RowGet(df, row, mapping["category"])))
                     ELSE ""
        amount == clean_amount(amount_raw)
    IN  IF amount = None
        THEN [fd EXCEPT !.processing_info.skipped_rows = @ + 1]
        ELSE LET date_str == clean_date(date_raw, raises)
                 category == row_category(category0, description, amount)
                 transaction == [date |-> date_str, amount |-> amount,
                                 category |-> category, description |-> description]
             IN  [fd EXCEPT
                    !.transactions = Append(@, transaction),
                    !.total_income = IF fpos(amount) THEN fadd(@, amount) ELSE @,
                    !.total_expenses = IF fpos(amount) THEN @ ELSE fadd(@, fabs(amount)),
                    !.categories = add_category(@, category, fabs(amount)),
                    !.processing_info.successful_transactions = @ + 1]

\* the final validation failing on any skipped row
finish_extraction_any_skipped(fd) ==
    IF fd.processing_info.skipped_rows > 0
    THEN create_error_response("No Valid Transactions",
             "Could not extract any valid transactions from the file.",
             <<"Check that the amount column contains numeric values",
               "Ensure the date column has valid dates",
               "Verify the file format matches expected structure">>)
    ELSE fd

\* the final validation after the loop
finish_extraction(fd) ==
    IF fd.processing_info.successful_transactions = 0
    THEN create_error_response("No Valid Transactions",
             "Could not extract any valid transactions from the file.",
             <<"Check that the amount column contains numeric values",
               "Ensure the date column has valid dates",
               "Verify the file format matches expected structure">>)
    ELSE fd

RECURSIVE process_rows(_, _, _, _, _)
process_rows(fd, df, mapping, i, raises) ==
    IF i > Len(df.rows) THEN fd
    ELSE process_rows(process_row(fd, df, mapping, df.rows[i], raises),
                      df, mapping, i + 1, raises)

extract_transactions_from_dataframe(df, mapping, raises) ==
    finish_extraction(process_rows(new_financial_data(df), df, mapping, 1, raises))

(***************************************************************************)
(* Pattern scans of the text readers.                                      *)
(***************************************************************************)
\* number of consecutive characters of text from position i that are in cs
RECURSIVE span(_, _, _)
span(text, i, cs) ==
    IF i <= Len(text) /\ Char(text, i) \in cs THEN 1 + span(text, i + 1, cs) ELSE 0

\* length of the match of  \$[\d,]+\.?\d*  (dollar TRUE) or of
\* \$?[\d,]+\.?\d*  (dollar FALSE) that starts at position i; 0 if none
match_amount(text, i, dollar) ==
    LET has  == i <= Len(text) /\ Char(text, i) = "$"
        j    == IF has THEN i + 1 ELSE i
        n1   == span(text, j, Digits \cup {","})
        dot  == IF j + n1 <= Len(text) /\ Char(text, j + n1) = "." THEN 1 ELSE 0
        n2   == span(text, j + n1 + dot, Digits)
    IN  IF (dollar /\ ~has) \/ n1 = 0 THEN 0
        ELSE (j - i) + n1 + dot + n2

\* re.findall(amount_pattern, text) from position i on
RECURSIVE findall_amounts(_, _, _)
findall_amounts(text, i, dollar) ==
    IF i > Len(text) THEN <<>>
    ELSE LET n == match_amount(text, i, dollar)
         IN  IF n > 0
             THEN <<SubSeq(text, i, i + n - 1)>> \o findall_amounts(text, i + n, dollar)
             ELSE findall_amounts(text, i + 1, dollar)

\* the matched amount taken as a debit
cleaned_amount_as_debit(amt_str) == fnegate(float(re_sub_remove({",", "$", " "}, amt_str)))

\* float(amt_str.replace(',', '').replace('$', '').replace(' ', ''))
cleaned_amount(amt_str) == float(re_sub_remove({",", "$", " "}, amt_str))

\* the amounts kept by the loop over the matches (a ValueError skips one)
RECURSIVE collect_amounts(_, _)
collect_amounts(matches, positive_only) ==
    IF Len(matches) = 0 THEN <<>>
    ELSE LET amount == cleaned_amount(Head(matches))
             keep == amount # None /\ (~positive_only \/ fpos(amount))
         IN  (IF keep THEN <<amount>> ELSE <<>>)
                 \o collect_amounts(Tail(matches), positive_only)

\* FinancialDataProcessor._analyze_pdf_text  (the 'amounts' entry)
analyze_pdf_text(text) ==
    [amounts |-> collect_amounts(findall_amounts(text, 1, TRUE), FALSE)]

\* FinancialDataProcessor._analyze_text_for_financial_data
analyze_text_for_financial_data(text) ==
    [amounts |-> collect_amounts(findall_amounts(text, 1, FALSE), TRUE),
     categories |-> SelectSeq([i \in 1..Len(category_keywords) |-> category_keywords[i].category],
                              LAMBDA c : contains(lower(text), lower(c)))]

\* sum(amt for amt in amounts if amt > 0).  The additions are exact, so the
\* sum of the two halves is the sum from left to right.
RECURSIVE sum_positive(_)
sum_positive(amounts) ==
    IF Len(amounts) = 0 THEN Zero
    ELSE IF Len(amounts) = 1
    THEN (IF fpos(amounts[1]) THEN fadd(Zero, amounts[1]) ELSE Zero)
    ELSE fadd(sum_positive(SubSeq(amounts, 1, Len(amounts) \div 2)),
              sum_positive(SubSeq(amounts, Len(amounts) \div 2 + 1, Len(amounts))))

\* sum(abs(amt) for amt in amounts if amt < 0)
RECURSIVE sum_negative(_)
sum_negative(amounts) ==
    IF Len(amounts) = 0 THEN Zero
    ELSE IF Len(amounts) = 1
    THEN (IF fneg(amounts[1]) THEN fadd(Zero, fabs(amounts[1])) ELSE Zero)
    ELSE fadd(sum_negative(SubSeq(amounts, 1, Len(amounts) \div 2)),
              sum_negative(SubSeq(amounts, Len(amounts) \div 2 + 1, Len(amounts))))

\* the summary the text readers build from the detected amounts
pattern_summary(document_type, category, amounts) ==
    [document_type |-> document_type,
     detected_amounts |-> amounts,
     total_income |-> sum_positive(amounts),
     total_expenses |-> sum_negative(amounts),
     categories |-> [c \in {category} |-> sum_negative(amounts)]]

(***************************************************************************)
(* The format readers.  A file is described by what its reader observes.   *)
(***************************************************************************)
\* the list without its last encoding
encodings_to_try_without_iso == <<"utf-8", "latin-1", "cp1252">>

encodings_to_try == <<"utf-8", "latin-1", "cp1252", "iso-8859-1">>

text_encodings_to_try == <<"utf-8", "latin-1", "cp1252">>

\* index of the first encoding whose read succeeds, 0 when none does
first_ok(outcomes, n) ==
    IF \E i \in 1..n : outcomes[i] = "ok"
    THEN CHOOSE i \in 1..n : outcomes[i] = "ok" /\ \A j \in 1..(i - 1) : outcomes[j] # "ok"
    ELSE 0

\* df.empty
empty(df) == Len(df.rows) = 0 \/ Len(df.columns) = 0

csv_empty_error ==
    create_error_response("Empty File",
        "The CSV file contains no data.",
        <<"Check that the file has transaction data",
          "Ensure the file isn't just headers">>)

csv_detection_error ==
    create_error_response("Column Detection Failed",
        "Could not identify required financial columns in the CSV.",
        <<"Required columns: Date, Amount, Description/Category",
          "Column names should be in the first row",
          "Example format: Date,Amount,Category,Description">>)

\* the table handed to the column detection without the emptiness check
process_csv_no_empty_check(f) ==
    IF first_ok(f.read_csv, Len(encodings_to_try)) = 0
    THEN create_error_response("CSV Reading Error",
             "Could not read CSV file with any supported encoding.",
             <<"Ensure the file is a valid CSV",
               "Try saving the file with UTF-8 encoding",
               "Check for special characters in the file">>)
    ELSE LET mapping == detect_csv_columns(f.df)
         IN  IF ~IsMapping(mapping)
             THEN csv_detection_error
             ELSE extract_transactions_from_dataframe(f.df, mapping, f.raises)

\* FinancialDataProcessor._process_csv
\* f.read_csv[i]: outcome of pd.read_csv with encodings_to_try[i]
process_csv(f) ==
    IF first_ok(f.read_csv, Len(encodings_to_try)) = 0
    THEN create_error_response("CSV Reading Error",
             "Could not read CSV file with any supported encoding.",
             <<"Ensure the file is a valid CSV",
               "Try saving the file with UTF-8 encoding",
               "Check for special characters in the file">>)
    ELSE IF empty(f.df)
    THEN csv_empty_error
    ELSE LET mapping == detect_csv_columns(f.df)
         IN  IF ~IsMapping(mapping)
             THEN csv_detection_error
             ELSE extract_transactions_from_dataframe(f.df, mapping, f.raises)

\* the loop over sheet_names, from sheet i on
RECURSIVE excel_sheets_from(_, _)
excel_sheets_from(f, i) ==
    IF i > Len(f.sheets)
    THEN create_error_response("Excel Processing Failed",
             "No financial data found in any Excel sheet.",
             <<"Ensure at least one sheet has columns: Date, Amount, Description",
               "Check that data starts in the first few rows",
               "Try converting to CSV for better compatibility">>)
    ELSE LET sheet == f.sheets[i]
         IN  IF sheet.read_raises \/ empty(sheet.df)
             THEN excel_sheets_from(f, i + 1)
             ELSE LET mapping == detect_csv_columns(sheet.df)
                  IN  IF IsMapping(mapping)
                      THEN extract_transactions_from_dataframe(sheet.df, mapping, f.raises)
                      ELSE excel_sheets_from(f, i + 1)

\* only the first sheet of the workbook looked at
process_excel_first_sheet_only(f) ==
    IF f.open_raises
    THEN create_error_response("Excel Processing Error", f.exception,
             <<"Check that the Excel file is not corrupted",
               "Ensure the file is not password protected",
               "Try saving as CSV if Excel processing fails">>)
    ELSE IF /\ Len(f.sheets) > 0
            /\ ~f.sheets[1].read_raises
            /\ ~empty(f.sheets[1].df)
            /\ IsMapping(detect_csv_columns(f.sheets[1].df))
    THEN extract_transactions_from_dataframe(f.sheets[1].df,
             detect_csv_columns(f.sheets[1].df), f.raises)
    ELSE excel_sheets_from(f, Len(f.sheets) + 1)

\* FinancialDataProcessor._process_excel
process_excel(f) ==
    IF f.open_raises
    THEN create_error_response("Excel Processing Error", f.exception,
             <<"Check that the Excel file is not corrupted",
               "Ensure the file is not password protected",
               "Try saving as CSV if Excel processing fails">>)
    ELSE excel_sheets_from(f, 1)

\* full_text after the loop over the pages (a page whose extraction raises
\* adds nothing); decimal page numbers up to 9 pages
RECURSIVE pdf_full_text(_, _)
pdf_full_text(pages, n) ==
    IF n = 0 THEN ""
    ELSE pdf_full_text(pages, n - 1) \o
         (IF pages[n].extract_raises THEN ""
          ELSE "\n--- Page " \o Char("123456789", n) \o " ---\n" \o pages[n].text)

\* not text.strip()
is_blank(text) == Len(strip(text)) = 0

\* FinancialDataProcessor._process_pdf
process_pdf(f) ==
    IF f.open_raises
    THEN create_error_response("PDF Processing Error", f.exception,
             <<"Check that the PDF file is not corrupted",
               "Ensure the PDF is not password protected",
               "Try converting to CSV for better results">>)
    ELSE IF Len(f.pages) = 0
    THEN create_error_response("Empty PDF",
             "The PDF file contains no pages.",
             <<"Check that the PDF file is valid",
               "Ensure the PDF is not corrupted">>)
    ELSE LET full_text == pdf_full_text(f.pages, Len(f.pages))
         IN  IF is_blank(full_text)
             THEN create_error_response("PDF Text Extraction Failed",
                      "Could not extract readable text from the PDF.",
                      <<"The PDF might be image-based (scanned document)",
                        "Try converting to text format first",
                        "Use CSV or Excel format for better results">>)
             ELSE pattern_summary("PDF Bank Statement", "PDF Transactions",
                                  analyze_pdf_text(full_text).amounts)

\* FinancialDataProcessor._process_docx
\* f.text: the paragraphs joined by newlines, f.tables: number of table rows
process_docx(f) ==
    IF f.open_raises
    THEN create_error_response("Word Processing Error", f.exception,
             <<"Check that the Word document is not corrupted",
               "Ensure the document is not password protected",
               "Try saving as text or CSV format">>)
    ELSE IF is_blank(f.text) /\ f.tables = 0
    THEN create_error_response("Empty Document",
             "The Word document contains no readable text or tables.",
             <<"Check that the document has financial content",
               "Ensure the document is not corrupted">>)
    ELSE pattern_summary("Word Financial Document", "Document Analysis",
                         analyze_text_for_financial_data(f.text).amounts)

\* FinancialDataProcessor._process_text
\* f.read[i]: outcome of open/read with text_encodings_to_try[i]; only a
\* UnicodeDecodeError moves on to the next encoding
process_text(f) ==
    LET n == Len(text_encodings_to_try)
        firstStop == IF \E i \in 1..n : f.read[i] # "UnicodeDecodeError"
                     THEN CHOOSE i \in 1..n :
                              /\ f.read[i] # "UnicodeDecodeError"
                              /\ \A j \in 1..(i - 1) : f.read[j] = "UnicodeDecodeError"
                     ELSE 0
    IN  IF firstStop # 0 /\ f.read[firstStop] = "Exception"
        THEN create_error_response("Text Processing Error", f.exception,
                 <<"Check that the text file is accessible",
                   "Ensure the file is not corrupted">>)
        ELSE IF firstStop = 0
        THEN create_error_response("Text Reading Error",
                 "Could not read text file with any supported encoding.",
                 <<"Check that the file contains valid text",
                   "Try saving with UTF-8 encoding">>)
        ELSE IF is_blank(f.text)
        THEN create_error_response("Empty File",
                 "The text file is empty.",
                 <<"Check that the file contains financial data">>)
        ELSE pattern_summary("Text Financial Data", "Text Analysis",
                             analyze_text_for_financial_data(f.text).amounts)

(***************************************************************************)
(* What the readers do to the file: the read attempts in the order they    *)
(* are made, and the handles the reader itself opens and closes.  The      *)
(* handles pd.read_csv, pd.read_excel and Document open and close inside   *)
(* the library call are part of the one event of that call.                *)
(***************************************************************************)
Event(op, name, sheet) == [op |-> op, name |-> name, sheet |-> sheet]

\* the loop over encodings_to_try of _process_csv, from encoding i on
RECURSIVE csv_io_from(_, _)
csv_io_from(f, i) ==
    IF i > Len(encodings_to_try) THEN <<>>
    ELSE <<Event("read_csv", encodings_to_try[i], 0)>>
         \o (IF f.read_csv[i] = "ok" THEN <<>> ELSE csv_io_from(f, i + 1))

csv_io(f) == csv_io_from(f, 1)

\* the loop over sheet_names of _process_excel, from sheet i on: the
\* return inside the loop ends it
RECURSIVE excel_reads_from(_, _)
excel_reads_from(f, i) ==
    IF i > Len(f.sheets) THEN <<>>
    ELSE <<Event("read_excel", "", i)>>
         \o (IF /\ ~f.sheets[i].read_raises
                /\ ~empty(f.sheets[i].df)
                /\ IsMapping(detect_csv_columns(f.sheets[i].df))
             THEN <<>>
             ELSE excel_reads_from(f, i + 1))

\* excel_file = pd.ExcelFile(file_path) is opened without a with statement
\* and close() is never called: the workbook handle is closed when the
\* interpreter finalizes the object, before the call returns
\* (f.finalized) or at some later time
excel_io(f) ==
    IF f.open_raises THEN <<Event("open_error", "ExcelFile", 0)>>
    ELSE <<Event("open", "ExcelFile", 0)>>
         \o excel_reads_from(f, 1)
         \o (IF f.finalized THEN <<Event("close", "ExcelFile", 0)>> ELSE <<>>)

\* with open(file_path, 'rb') as file: every way out of the block closes
pdf_io(f) == <<Event("open", "rb", 0), Event("close", "rb", 0)>>

docx_io(f) == <<Event("Document", "", 0)>>

\* the loop over encodings_to_try of _process_text, from encoding i on:
\* the with statement closes the file also when read() raises
\* UnicodeDecodeError; any other exception (open() failing) leaves the loop
RECURSIVE text_io_from(_, _)
text_io_from(f, i) ==
    IF i > Len(text_encodings_to_try) THEN <<>>
    ELSE IF f.read[i] = "Exception"
    THEN <<Event("open_error", text_encodings_to_try[i], 0)>>
    ELSE <<Event("open", text_encodings_to_try[i], 0),
           Event("close", text_encodings_to_try[i], 0)>>
         \o (IF f.read[i] = "ok" THEN <<>> ELSE text_io_from(f, i + 1))

text_io(f) == text_io_from(f, 1)

(***************************************************************************)
(* FinancialDataProcessor.__init__ and process_document                    *)
(***************************************************************************)
\* the module-level capability flags, in every combination
Capabilities ==
    [PANDAS_AVAILABLE : BOOLEAN, EXCEL_AVAILABLE : BOOLEAN,
     PDF_AVAILABLE : BOOLEAN, DOCX_AVAILABLE : BOOLEAN]

AllCapabilities ==
    [PANDAS_AVAILABLE |-> TRUE, EXCEL_AVAILABLE |-> TRUE,
     PDF_AVAILABLE |-> TRUE, DOCX_AVAILABLE |-> TRUE]

\* the PDF format declared without looking at its capability flag
init_supported_formats_pdf_always(c) ==
    (IF c.PANDAS_AVAILABLE THEN <<".csv", ".txt">> ELSE <<>>)
    \o (IF c.EXCEL_AVAILABLE /\ c.PANDAS_AVAILABLE THEN <<".xlsx", ".xls">> ELSE <<>>)
    \o <<".pdf">>
    \o (IF c.DOCX_AVAILABLE THEN <<".docx">> ELSE <<>>)

\* self.supported_formats as built by __init__
init_supported_formats(c) ==
    (IF c.PANDAS_AVAILABLE THEN <<".csv", ".txt">> ELSE <<>>)
    \o (IF c.EXCEL_AVAILABLE /\ c.PANDAS_AVAILABLE THEN <<".xlsx", ".xls">> ELSE <<>>)
    \o (IF c.PDF_AVAILABLE THEN <<".pdf">> ELSE <<>>)
    \o (IF c.DOCX_AVAILABLE THEN <<".docx">> ELSE <<>>)

Range(seq) == {seq[i] : i \in 1..Len(seq)}

\* sep.join(items)
RECURSIVE join(_, _)
join(sep, items) ==
    IF Len(items) = 0 THEN ""
    ELSE IF Len(items) = 1 THEN items[1]
    ELSE items[1] \o sep \o join(sep, Tail(items))

\* position of the last occurrence of character c in s, 0 if none
last_index(s, c) ==
    IF \E i \in 1..Len(s) : Char(s, i) = c
    THEN CHOOSE i \in 1..Len(s) :
             Char(s, i) = c /\ \A j \in (i + 1)..Len(s) : Char(s, j) # c
    ELSE 0

\* os.path.splitext(p)[1]: from the last dot of the last path component,
\* unless only dots precede it in that component
splitext_ext(p) ==
    LET sepIndex == last_index(p, "/")
        dotIndex == last_index(p, ".")
    IN  IF dotIndex > sepIndex
           /\ \E i \in (sepIndex + 1)..(dotIndex - 1) : Char(p, i) # "."
        THEN SubSeq(p, dotIndex, Len(p))
        ELSE ""

Raised(exception) == [raised |-> exception]

IsRaised(r) == "raised" \in DOMAIN r

not_found_error(f) ==
    create_error_response("File Not Found",
        "The file '" \o f.file_path \o "' could not be found.",
        <<"Check that the file path is correct",
          "Ensure the file hasn't been moved or deleted">>)

unsupported_error(file_extension) ==
    create_error_response("Unsupported Format",
        "File format '" \o file_extension \o "' is not supported.",
        <<"Supported formats: " \o join(", ", supported_formats),
          "Convert your file to CSV for best results",
          "Ensure required libraries are installed">>)

\* STEP 3 of process_document: the reader chosen by the extension
route(f, file_extension) ==
    IF file_extension = ".csv"
    THEN [result |-> process_csv(f), invoked |-> <<"_process_csv">>,
          io |-> csv_io(f)]
    ELSE IF file_extension \in {".xlsx", ".xls"}
    THEN [result |-> process_excel(f), invoked |-> <<"_process_excel">>,
          io |-> excel_io(f)]
    ELSE IF file_extension = ".pdf"
    THEN [result |-> process_pdf(f), invoked |-> <<"_process_pdf">>,
          io |-> pdf_io(f)]
    ELSE IF file_extension = ".docx"
    THEN [result |-> process_docx(f), invoked |-> <<"_process_docx">>,
          io |-> docx_io(f)]
    ELSE IF file_extension = ".txt"
    THEN [result |-> process_text(f), invoked |-> <<"_process_text">>,
          io |-> text_io(f)]
    ELSE [result |-> create_error_response("Processing Error",
                         "No processor available for '" \o file_extension \o "' files.",
                         <<"This shouldn't happen - please report this issue">>),
          invoked |-> <<>>, io |-> <<>>]

\* the existence check moved behind the format check
process_document_format_first(f) ==
    IF ~f.path_is_str
    THEN [result |-> Raised("TypeError"), invoked |-> <<>>, io |-> <<>>]
    ELSE LET file_extension == lower(splitext_ext(f.file_path))
         IN  IF file_extension \notin Range(supported_formats)
             THEN [result |-> unsupported_error(file_extension), invoked |-> <<>>, io |-> <<>>]
             ELSE IF ~f.exists
             THEN [result |-> not_found_error(f), invoked |-> <<>>, io |-> <<>>]
             ELSE route(f, file_extension)

\* the result of process_document and the readers it called.
\* os.path.basename(file_path), evaluated for the first print before the
\* try block, raises TypeError on a value that is no path.
process_document(f) ==
    IF ~f.path_is_str
    THEN [result |-> Raised("TypeError"), invoked |-> <<>>, io |-> <<>>]
    ELSE IF ~f.exists
    THEN [result |-> not_found_error(f), invoked |-> <<>>, io |-> <<>>]
    ELSE LET file_extension == lower(splitext_ext(f.file_path))
         IN  IF file_extension \notin Range(supported_formats)
             THEN [result |-> unsupported_error(file_extension), invoked |-> <<>>, io |-> <<>>]
             ELSE route(f, file_extension)

(***************************************************************************)
(* State shared by the specifications.                                     *)
(***************************************************************************)
Nothing == [nothing |-> TRUE]

\* the processor as constructed, with capability flags c, before any call
Constructed(c) ==
    /\ caps = c
    /\ supported_formats = init_supported_formats(c)
    /\ result = Nothing
    /\ invoked = <<>>
    /\ financial_data = Nothing
    /\ column_mapping = NoMapping
    /\ row_index = 0
    /\ io = <<>>
    /\ calls = 0

(***************************************************************************)
(* SpecAmount: _clean_amount applied to raw cell values.                   *)
(***************************************************************************)
AmountAlphabet == {"$", ",", " ", "(", ")", "-", ".", "1", "5", "n", "a"}

RECURSIVE StringsUpTo(_, _)
StringsUpTo(alphabet, n) ==
    IF n = 0 THEN {""}
    ELSE LET shorter == StringsUpTo(alphabet, n - 1)
         IN  shorter \cup {s \o c : s \in shorter, c \in alphabet}

AmountExamples ==
    {"$1,234.56", "(500)", "abc", "inf", "-Infinity", "NaN", " $ (1,5.50) ", "+7"}

RawAmounts ==
    {NaNCell, NoneCell}
    \cup {Cell(s) : s \in StringsUpTo(AmountAlphabet, MaxLen) \cup AmountExamples}

InitAmount ==
    /\ pc = "start"
    /\ \E raw \in RawAmounts : arg = [op |-> "clean_amount", raw |-> raw]
    /\ Constructed(AllCapabilities)

CleanAmount ==
    /\ pc = "start"
    /\ arg.op = "clean_amount"
    /\ result' = [value |-> clean_amount(arg.raw)]
    /\ pc' = "done"
    /\ UNCHANGED <<arg, caps, supported_formats, invoked, io, calls, financial_data,
                   column_mapping, row_index>>

NextAmount == CleanAmount

SpecAmount == InitAmount /\ [][NextAmount]_vars

\* the text left of a raw value once currency symbols, whitespace and
\* thousands separators are stripped and a full pair of parentheses is
\* read as a minus sign
Residual(raw) ==
    LET t == re_sub_remove({"$", ","} \cup Whitespace, str(raw))
    IN  IF Len(t) >= 2 /\ Char(t, 1) = "(" /\ Char(t, Len(t)) = ")"
        THEN "-" \o SubSeq(t, 2, Len(t) - 1)
        ELSE t

\* t is an optionally signed decimal numeral
IsDecimalNumber(t) ==
    \E start \in 1..2 :
        /\ start = 2 => (Len(t) >= 1 /\ Char(t, 1) \in {"+", "-"})
        /\ \A i \in start..Len(t) : Char(t, i) \in Digits \cup {"."}
        /\ \E i \in start..Len(t) : Char(t, i) \in Digits
        /\ Cardinality({i \in start..Len(t) : Char(t, i) = "."}) <= 1

\* C8: clean_amount returns the invalid sentinel exactly when the input is
\* null/missing or the residual string is not a decimal number, and the
\* documented examples have the documented values.
C8_CleanAmountContract ==
    (pc = "done" /\ arg.op = "clean_amount") =>
        /\ (result.value = None) <=>
               (isna(arg.raw) \/ ~IsDecimalNumber(Residual(arg.raw)))
        /\ arg.raw = Cell("$1,234.56") => result.value = Fin(123456, 2)
        /\ arg.raw = Cell("(500)") => result.value = Fin(-500, 0)
        /\ arg.raw = Cell("abc") => result.value = None

\* what does hold: the sentinel is returned exactly for null input and
\* for residuals that are neither decimal numerals nor spellings of
\* nan / inf / infinity
CleanAmountSentinelExact ==
    (pc = "done" /\ arg.op = "clean_amount") =>
        /\ (result.value = None) <=>
               \/ isna(arg.raw)
               \/ /\ ~IsDecimalNumber(Residual(arg.raw))
                  /\ result.value.k \notin {"nan", "inf"}
        /\ arg.raw = Cell("$1,234.56") => result.value = Fin(123456, 2)
        /\ arg.raw = Cell("(500)") => result.value = Fin(-500, 0)
        /\ arg.raw = Cell("abc") => result.value = None

(***************************************************************************)
(* create_sample_data                                                      *)
(***************************************************************************)
\* the number of the day d, counted from 1 March of year 0 (day 0), and the
\* day of a number: the proleptic Gregorian calendar of datetime
toordinal(d) ==
    LET y   == IF d.month <= 2 THEN d.year - 1 ELSE d.year
        mp  == IF d.month > 2 THEN d.month - 3 ELSE d.month + 9
        doy == (153 * mp + 2) \div 5 + d.day - 1
    IN  365 * y + y \div 4 - y \div 100 + y \div 400 + doy

fromordinal(z) ==
    LET era == z \div 146097
        doe == z - era * 146097
        yoe == (doe - doe \div 1460 + doe \div 36524 - doe \div 146096) \div 365
        doy == doe - (365 * yoe + yoe \div 4 - yoe \div 100)
        mp  == (5 * doy + 2) \div 153
        m   == IF mp < 10 THEN mp + 3 ELSE mp - 9
    IN  [year |-> yoe + era * 400 + (IF m <= 2 THEN 1 ELSE 0),
         month |-> m,
         day |-> doy - (153 * mp + 2) \div 5 + 1]

\* d + timedelta(days=n)
timedelta_add(d, n) == fromordinal(toordinal(d) + n)

DigitChar(n) == Char("0123456789", n + 1)

\* n in decimal, zero-padded to width digits
RECURSIVE zero_padded(_, _)
zero_padded(n, width) ==
    IF width = 0 THEN ""
    ELSE zero_padded(n \div 10, width - 1) \o DigitChar(n % 10)

\* d.strftime('%Y-%m-%d')
strftime(d) ==
    zero_padded(d.year, 4) \o "-" \o zero_padded(d.month, 2) \o "-" \o zero_padded(d.day, 2)

\* the literal transaction list; days is the offset from base_date, amounts
\* are written in cents
sample_rows == <<
    [days |-> 1, amount |-> Fin(420000, 2), category |-> "Salary", description |-> "Monthly Salary - Company XYZ"],
    [days |-> 15, amount |-> Fin(80000, 2), category |-> "Side Income", description |-> "Freelance Project Payment"],
    [days |-> 20, amount |-> Fin(20000, 2), category |-> "Other Income", description |-> "Tax Refund"],
    [days |-> 1, amount |-> Fin(-125000, 2), category |-> "Housing", description |-> "Monthly Rent Payment"],
    [days |-> 5, amount |-> Fin(-12000, 2), category |-> "Utilities", description |-> "Electric Bill"],
    [days |-> 7, amount |-> Fin(-8000, 2), category |-> "Utilities", description |-> "Internet & Cable"],
    [days |-> 10, amount |-> Fin(-4500, 2), category |-> "Utilities", description |-> "Water Bill"],
    [days |-> 3, amount |-> Fin(-35000, 2), category |-> "Transportation", description |-> "Car Payment"],
    [days |-> 8, amount |-> Fin(-5500, 2), category |-> "Transportation", description |-> "Gas Station Fill-up"],
    [days |-> 15, amount |-> Fin(-6000, 2), category |-> "Transportation", description |-> "Gas Station Fill-up"],
    [days |-> 22, amount |-> Fin(-4500, 2), category |-> "Transportation", description |-> "Gas Station Fill-up"],
    [days |-> 12, amount |-> Fin(-2500, 2), category |-> "Transportation", description |-> "Parking Fee"],
    [days |-> 2, amount |-> Fin(-12000, 2), category |-> "Groceries", description |-> "Weekly Grocery Shopping"],
    [days |-> 9, amount |-> Fin(-11500, 2), category |-> "Groceries", description |-> "Weekly Grocery Shopping"],
    [days |-> 16, amount |-> Fin(-13000, 2), category |-> "Groceries", description |-> "Weekly Grocery Shopping"],
    [days |-> 23, amount |-> Fin(-12500, 2), category |-> "Groceries", description |-> "Weekly Grocery Shopping"],
    [days |-> 6, amount |-> Fin(-4500, 2), category |-> "Dining Out", description |-> "Restaurant Dinner"],
    [days |-> 13, amount |-> Fin(-3500, 2), category |-> "Dining Out", description |-> "Lunch with Colleagues"],
    [days |-> 19, amount |-> Fin(-2500, 2), category |-> "Dining Out", description |-> "Coffee Shop"],
    [days |-> 14, amount |-> Fin(-15000, 2), category |-> "Healthcare", description |-> "Doctor Visit Copay"],
    [days |-> 18, amount |-> Fin(-3500, 2), category |-> "Healthcare", description |-> "Prescription Medication"],
    [days |-> 4, amount |-> Fin(-1599, 2), category |-> "Entertainment", description |-> "Netflix Subscription"],
    [days |-> 11, amount |-> Fin(-1299, 2), category |-> "Entertainment", description |-> "Spotify Premium"],
    [days |-> 17, amount |-> Fin(-4500, 2), category |-> "Entertainment", description |-> "Movie Theater Tickets"],
    [days |-> 24, amount |-> Fin(-8500, 2), category |-> "Entertainment", description |-> "Concert Tickets"],
    [days |-> 5, amount |-> Fin(-6500, 2), category |-> "Shopping", description |-> "Clothing Store"],
    [days |-> 21, amount |-> Fin(-12000, 2), category |-> "Shopping", description |-> "Amazon Purchase"],
    [days |-> 26, amount |-> Fin(-4000, 2), category |-> "Personal Care", description |-> "Haircut"],
    [days |-> 3, amount |-> Fin(-18500, 2), category |-> "Debt Payment", description |-> "Credit Card Payment"],
    [days |-> 25, amount |-> Fin(-7500, 2), category |-> "Debt Payment", description |-> "Student Loan Payment"],
    [days |-> 1, amount |-> Fin(-9500, 2), category |-> "Insurance", description |-> "Auto Insurance"],
    [days |-> 15, amount |-> Fin(-20000, 2), category |-> "Insurance", description |-> "Health Insurance Premium"],
    [days |-> 2, amount |-> Fin(-30000, 2), category |-> "Savings", description |-> "Emergency Fund Transfer"],
    [days |-> 16, amount |-> Fin(-40000, 2), category |-> "Investment", description |-> "401k Contribution"],
    [days |-> 28, amount |-> Fin(-5000, 2), category |-> "Other", description |-> "ATM Withdrawal"],
    [days |-> 29, amount |-> Fin(-2500, 2), category |-> "Fees", description |-> "Bank Service Fee"] >>

sample_transactions(now) ==
    LET base_date == timedelta_add(now, -30)
    IN  [i \in 1..Len(sample_rows) |->
            [date |-> strftime(timedelta_add(base_date, sample_rows[i].days)),
             amount |-> sample_rows[i].amount,
             category |-> sample_rows[i].category,
             description |-> sample_rows[i].description]]

\* the dictionary built by grouping the first n transactions of one sign:
\* each category with the sum of its amounts
group_by_category(transactions, n, income) ==
    LET chosen == SelectSeq(SubSeq(transactions, 1, n),
                            LAMBDA t : IF income THEN fpos(t.amount) ELSE fneg(t.amount))
        of(c) == SelectSeq(chosen, LAMBDA t : t.category = c)
    IN  [c \in {chosen[i].category : i \in 1..Len(chosen)} |->
            sum_positive([i \in 1..Len(of(c)) |-> fabs(of(c)[i].amount)])]

\* {**a, **b}
dict_merge(a, b) ==
    [c \in DOMAIN a \cup DOMAIN b |-> IF c \in DOMAIN b THEN b[c] ELSE a[c]]

\* every amount read as an expense
amounts_of_as_expenses(transactions) ==
    [i \in 1..Len(transactions) |-> fnegate(fabs(transactions[i].amount))]

amounts_of(transactions) == [i \in 1..Len(transactions) |-> transactions[i].amount]

fsub(a, b) == fadd(a, fnegate(b))

\* savings_rate and the descriptive sample_info notes are left out
create_sample_data(now) ==
    LET transactions == sample_transactions(now)
        total_income == sum_positive(amounts_of(transactions))
        total_expenses == sum_negative(amounts_of(transactions))
        expense_categories == group_by_category(transactions, Len(transactions), FALSE)
        income_categories == group_by_category(transactions, Len(transactions), TRUE)
    IN  [transactions |-> transactions,
         total_income |-> total_income,
         total_expenses |-> total_expenses,
         categories |-> dict_merge(expense_categories, income_categories),
         expense_categories |-> expense_categories,
         income_categories |-> income_categories,
         net_cash_flow |-> fsub(total_income, total_expenses),
         sample_info |-> [transaction_count |-> Len(transactions)]]

(***************************************************************************)
(* SpecTabular: the tabular path after the file is read (_process_csv from *)
(* the emptiness check on), the row loop taken one row per step, and       *)
(* create_sample_data.                                                     *)
(***************************************************************************)
\* a column of an input table: its header and the cells a row may have in it
DateCells == {Cell("01/02/2024"), Cell("soon"), Cell(""), NaNCell}

OneDateCell == {Cell("2024-01-02")}

AmountCells == {Cell("100"), Cell("(50.5)"), Cell("abc"), Cell(" nAn"), BoolCell(TRUE)}

FewDateCells == {Cell("2024-01-02"), NaNCell}

FewAmountCells == {Cell("100"), Cell("-50"), Cell("abc")}

TextAmountCells == {Cell("abc"), Cell("inf")}

DescriptionCells == {Cell("Grocery Mart"), NaNCell}

CategoryCells == {Cell("Bills"), NaNCell}

\* category cells that hold a text: padded, spelling a null, or blank
CategoryTextCells == {Cell(" Pets "), Cell("NONE"), Cell(" ")}

Layouts == {
    <<[name |-> "Date", cells |-> DateCells],
      [name |-> "Amount", cells |-> AmountCells]>>,
    <<[name |-> "Transaction Date", cells |-> OneDateCell],
      [name |-> "Amount", cells |-> FewAmountCells],
      [name |-> "Memo", cells |-> DescriptionCells]>>,
    <<[name |-> "Date", cells |-> OneDateCell],
      [name |-> "Amount", cells |-> FewAmountCells],
      [name |-> "Description", cells |-> DescriptionCells],
      [name |-> "Category", cells |-> CategoryCells]>>,
    <<[name |-> "Date", cells |-> OneDateCell],
      [name |-> "Amount", cells |-> {Cell("-50")}],
      [name |-> "Description", cells |-> {Cell("Grocery Mart")}],
      [name |-> "Category", cells |-> CategoryTextCells]>>,
    <<[name |-> "t", cells |-> {Cell("100"), Cell("-50")}]>>,
    <<[name |-> "Memo", cells |-> DescriptionCells],
      [name |-> "Amount", cells |-> FewAmountCells]>>,
    <<[name |-> "Date", cells |-> FewDateCells],
      [name |-> "Notes", cells |-> DescriptionCells]>>,
    <<[name |-> "d", cells |-> FewDateCells],
      [name |-> " AMT ", cells |-> FewAmountCells]>>,
    <<[name |-> "When", cells |-> FewDateCells],
      [name |-> " ", cells |-> FewAmountCells]>>,
    <<[name |-> "Posting Date", cells |-> OneDateCell],
      [name |-> "Debit", cells |-> TextAmountCells]>>,
    <<[name |-> "Date", cells |-> OneDateCell],
      [name |-> "Value Date", cells |-> OneDateCell],
      [name |-> "Amount", cells |-> FewAmountCells]>> }

\* the rows a layout admits: one cell per column
RowsOf(layout) ==
    {row \in [1..Len(layout) -> UNION {layout[i].cells : i \in 1..Len(layout)}] :
        \A i \in 1..Len(layout) : row[i] \in layout[i].cells}

SeqsUpTo(S, n) == UNION {[1..k -> S] : k \in 0..n}

\* the table of the documented example
ExampleTable ==
    [columns |-> <<"Transaction Date", "Amount", "Memo">>,
     rows |-> << <<Cell("2024-01-01"), IntCell("100"), Cell("Paycheck")>>,
                 <<Cell("2024-01-02"), IntCell("-50"), Cell("Grocery Mart")>> >>]

Tables ==
    UNION {{[columns |-> [i \in 1..Len(layout) |-> layout[i].name], rows |-> rows] :
                rows \in SeqsUpTo(RowsOf(layout), MaxRows)} : layout \in Layouts}
    \cup {ExampleTable}

Today == {[year |-> 2024, month |-> 3, day |-> 15], [year |-> 2025, month |-> 1, day |-> 10]}

InitTabular ==
    /\ pc = "start"
    /\ \/ \E df \in Tables, raises \in BOOLEAN :
              arg = [op |-> "tabular", df |-> df, raises |-> raises]
       \/ \E now \in Today : arg = [op |-> "create_sample_data", now |-> now]
    /\ Constructed(AllCapabilities)

\* the emptiness check and the column detection: the call ends in an error,
\* or the extraction starts with the detected mapping
DetectColumns ==
    /\ pc = "start"
    /\ arg.op = "tabular"
    /\ LET mapping == IF empty(arg.df) THEN NoMapping ELSE detect_csv_columns(arg.df)
       IN  IF IsMapping(mapping)
           THEN /\ column_mapping' = mapping
                /\ financial_data' = new_financial_data(arg.df)
                /\ row_index' = 1
                /\ pc' = "rows"
                /\ UNCHANGED result
           ELSE /\ result' = IF empty(arg.df) THEN csv_empty_error
                                              ELSE csv_detection_error
                /\ pc' = "done"
                /\ UNCHANGED <<column_mapping, financial_data, row_index>>
    /\ UNCHANGED <<arg, caps, supported_formats, invoked, io, calls>>

\* one iteration of the loop over the rows
ExtractRow ==
    /\ pc = "rows"
    /\ row_index <= Len(arg.df.rows)
    /\ financial_data' = process_row(financial_data, arg.df, column_mapping,
                                     arg.df.rows[row_index], arg.raises)
    /\ row_index' = row_index + 1
    /\ UNCHANGED <<pc, arg, result, caps, supported_formats, invoked, column_mapping,
                   io, calls>>

\* the final validation; the result is returned
FinishExtraction ==
    /\ pc = "rows"
    /\ row_index > Len(arg.df.rows)
    /\ result' = finish_extraction(financial_data)
    /\ pc' = "done"
    /\ UNCHANGED <<arg, caps, supported_formats, invoked, io, calls, financial_data,
                   column_mapping, row_index>>

CreateSampleData ==
    /\ pc = "start"
    /\ arg.op = "create_sample_data"
    /\ result' = create_sample_data(arg.now)
    /\ pc' = "done"
    /\ UNCHANGED <<arg, caps, supported_formats, invoked, io, calls, financial_data,
                   column_mapping, row_index>>

NextTabular ==
    \/ DetectColumns
    \/ ExtractRow
    \/ FinishExtraction
    \/ CreateSampleData

SpecTabular == InitTabular /\ [][NextTabular]_vars

\* the stepwise extraction returns what the whole function computes
StepwiseIsExtract ==
    (pc = "done" /\ arg.op = "tabular" /\ IsMapping(column_mapping)) =>
        result = extract_transactions_from_dataframe(arg.df, column_mapping, arg.raises)

(***************************************************************************)
(* Properties of the tabular path and of the sample data.                  *)
(***************************************************************************)
RECURSIVE SumAmounts(_)
SumAmounts(amounts) ==
    IF Len(amounts) = 0 THEN Zero
    ELSE fadd(SumAmounts(SubSeq(amounts, 1, Len(amounts) - 1)), amounts[Len(amounts)])

AbsAmounts(ts) == [i \in 1..Len(ts) |-> fabs(ts[i].amount)]

IsIncome(t) == fpos(t.amount)

IsExpense(t) == fneg(t.amount)

IncomeOf(ts) == SumAmounts(amounts_of(SelectSeq(ts, IsIncome)))

ExpensesOf(ts) == SumAmounts(AbsAmounts(SelectSeq(ts, IsExpense)))

CategorySum(ts, c) ==
    SumAmounts(AbsAmounts(SelectSeq(ts, LAMBDA t : t.category = c)))

IsSummary(r) == "transactions" \in DOMAIN r

SummaryTotalsHold(r) ==
    /\ r.total_income = IncomeOf(r.transactions)
    /\ r.total_expenses = ExpensesOf(r.transactions)
    /\ \A i \in 1..Len(r.transactions) : r.transactions[i].category \in DOMAIN r.categories
    /\ \A c \in DOMAIN r.categories : r.categories[c] = CategorySum(r.transactions, c)

\* C2: in every summary of the tabular path and of create_sample_data,
\* total_income is the sum of the positive amounts, total_expenses the sum
\* of |amount| over the negative amounts, and every category value the sum
\* of |amount| over the transactions carrying that label.
C2_SummaryTotals ==
    (pc = "done" /\ IsSummary(result)) => SummaryTotalsHold(result)

\* the totals do hold for every summary none of whose amounts is nan
SummaryTotalsWithoutNaN ==
    (pc = "done" /\ IsSummary(result)
        /\ \A i \in 1..Len(result.transactions) : result.transactions[i].amount # NaN)
    => SummaryTotalsHold(result)

\* the row the loop is about to process, and its raw amount and date
AtRow == pc = "rows" /\ row_index <= Len(arg.df.rows)

RawAmount(i) == RowGet(arg.df, arg.df.rows[i], column_mapping["amount"])

RawDate(i) == RowGet(arg.df, arg.df.rows[i], column_mapping["date"])

\* C5: a row whose amount is invalid is skipped, increments skipped_rows by
\* one and records an entry in the issues list, and the loop goes on with
\* the next row.
C5_InvalidRowSkippedAndLogged ==
    [][(AtRow /\ clean_amount(RawAmount(row_index)) = None) =>
          /\ financial_data'.processing_info.skipped_rows
                 = financial_data.processing_info.skipped_rows + 1
          /\ Len(financial_data'.processing_info.data_quality_issues)
                 = Len(financial_data.processing_info.data_quality_issues) + 1
          /\ financial_data'.transactions = financial_data.transactions
          /\ row_index' = row_index + 1
          /\ pc' = "rows"]_vars

Extracted == pc = "done" /\ arg.op = "tabular" /\ IsMapping(column_mapping)

\* the rows of the table whose amount is valid, in row order
ValidRows == SelectSeq([i \in 1..Len(arg.df.rows) |-> i],
                       LAMBDA i : clean_amount(RawAmount(i)) # None)

\* C6: the extraction returns the error No Valid Transactions exactly when
\* no row yields a valid transaction, never a summary without
\* transactions, and a summary as soon as one row succeeds.
C6_NoValidTransactionsIff ==
    Extracted =>
        /\ (IsError(result) /\ result.error = "No Valid Transactions")
               <=> Len(ValidRows) = 0
        /\ IsSummary(result) <=> Len(ValidRows) > 0
        /\ IsSummary(result) => Len(result.transactions) > 0

C6_Witness ==
    /\ Extracted
    /\ IsError(result)
    /\ result.error = "No Valid Transactions"
    /\ financial_data.processing_info.skipped_rows >= 1

\* a summary is also reached with rows skipped
SummaryWithSkippedRows ==
    Extracted /\ IsSummary(result) /\ result.processing_info.skipped_rows >= 1

Unparseable(raw) == isna(raw) \/ to_datetime(str(raw)) = NaT

\* C7 as stated: every row with a valid amount is kept, and when its raw
\* date cannot be parsed (a missing cell included) the date of its
\* transaction is the raw value stringified.
C7_UnparseableDateKeptRaw ==
    Extracted =>
        /\ Len(financial_data.transactions) = Len(ValidRows)
        /\ \A k \in 1..Len(ValidRows) :
               Unparseable(RawDate(ValidRows[k])) =>
                   financial_data.transactions[k].date = str(RawDate(ValidRows[k]))

\* C7 amended: every row with a valid amount is kept, and when its raw
\* date cannot be parsed the date of its transaction is "Unknown" for a
\* missing cell (and for an empty value on which the conversion raised)
\* and the raw value stringified otherwise.
C7_UnparseableDateKeptOrUnknown ==
    Extracted =>
        /\ Len(financial_data.transactions) = Len(ValidRows)
        /\ \A k \in 1..Len(ValidRows) :
               LET raw == RawDate(ValidRows[k])
               IN  Unparseable(raw) =>
                       financial_data.transactions[k].date =
                           IF isna(raw) \/ (arg.raises /\ str(raw) = "")
                           THEN "Unknown" ELSE str(raw)

C7_Witness ==
    /\ Extracted
    /\ \E k \in 1..Len(ValidRows) :
           isna(RawDate(ValidRows[k])) /\ financial_data.transactions[k].date = "Unknown"
    /\ \E k \in 1..Len(ValidRows) :
           RawDate(ValidRows[k]) = Cell("soon") /\ financial_data.transactions[k].date = "soon"

\* some header of the table matches an alias of the role
HeaderMatches(df, role) ==
    \E i \in 1..Len(df.columns), r \in 1..Len(column_patterns) :
        /\ column_patterns[r].role = role
        /\ \E j \in 1..Len(column_patterns[r].patterns) :
               LET col == strip(lower(df.columns[i]))
                   alias == column_patterns[r].patterns[j]
               IN  Len(col) > 0 /\ (contains(col, alias) \/ contains(alias, col))

\* C10: a mapping returned by the column detection has the date and the
\* amount role, none is returned when no header matches the date aliases
\* or none matches the amount aliases, and the extraction leaves the
\* mapping as it is.
C10_MappingRequiredAndReadOnly ==
    [][/\ IsMapping(column_mapping') => {"date", "amount"} \subseteq DOMAIN column_mapping'
       /\ (pc = "start" /\ arg.op = "tabular"
             /\ (~HeaderMatches(arg.df, "date") \/ ~HeaderMatches(arg.df, "amount")))
          => ~IsMapping(column_mapping')
       /\ pc = "rows" => column_mapping' = column_mapping]_vars

C10_Witness ==
    /\ Extracted
    /\ IsSummary(result)
    /\ "description" \in DOMAIN column_mapping
    /\ column_mapping["date"] = "Transaction Date"

(***************************************************************************)
(* SpecCategorize: _auto_categorize_transaction applied to descriptions    *)
(* made of a few words, with amounts of either sign.                       *)
(***************************************************************************)
Words == {"gas", "GAS", "food", "Store", "Brent", "pirate", "xyz",
          "Paycheck", "fast", "Card", "credit", "401K"}

RECURSIVE Phrases(_)
Phrases(n) ==
    IF n = 0 THEN {""}
    ELSE LET shorter == Phrases(n - 1)
         IN  shorter \cup {IF p = "" THEN w ELSE p \o " " \o w : p \in shorter, w \in Words}

Descriptions == Phrases(MaxWords)

CategorizedAmounts == {Fin(100, 0), Fin(-50, 0), Zero, NaN}

InitCategorize ==
    /\ pc = "start"
    /\ \E d \in Descriptions, a \in CategorizedAmounts :
           arg = [op |-> "categorize", description |-> d, amount |-> a]
    /\ Constructed(AllCapabilities)

Categorize ==
    /\ pc = "start"
    /\ arg.op = "categorize"
    /\ result' = [value |-> auto_categorize_transaction(arg.description, arg.amount)]
    /\ pc' = "done"
    /\ UNCHANGED <<arg, caps, supported_formats, invoked, io, calls, financial_data,
                   column_mapping, row_index>>

NextCategorize == Categorize

SpecCategorize == InitCategorize /\ [][NextCategorize]_vars

\* the order of the keyword table
CategoryOrder == <<"Housing", "Transportation", "Food", "Healthcare", "Entertainment",
                   "Shopping", "Debt Payment", "Income", "Savings">>

\* the table entries one of whose keywords occurs in d, case ignored
Hits(d) ==
    {i \in 1..Len(category_keywords) :
        \E j \in 1..Len(category_keywords[i].keywords) :
            contains(lower(d), lower(category_keywords[i].keywords[j]))}

\* C9: the category is the first one, in the order Housing, Transportation,
\* Food, Healthcare, Entertainment, Shopping, Debt Payment, Income, Savings,
\* with a keyword that is a case-insensitive substring of the description,
\* whatever the amount and the match length; without a match, or with an
\* empty description, it is Income for amount > 0 and Other Expenses otherwise.
C9_FirstCategoryInTableOrder ==
    (pc = "done" /\ arg.op = "categorize") =>
        /\ [i \in 1..Len(category_keywords) |-> category_keywords[i].category] = CategoryOrder
        /\ IF arg.description = "" \/ Hits(arg.description) = {}
           THEN result.value = IF fpos(arg.amount) THEN "Income" ELSE "Other Expenses"
           ELSE result.value =
                    CategoryOrder[CHOOSE i \in Hits(arg.description) :
                                      \A j \in Hits(arg.description) : i <= j]

C9_Witness ==
    /\ pc = "done"
    /\ arg.op = "categorize"
    /\ arg.description = "food GAS"
    /\ arg.amount = Fin(100, 0)
    /\ result.value = "Housing"

(***************************************************************************)
(* Spec: process_document called on files of every format, for every       *)
(* combination of the capability flags.                                    *)
(***************************************************************************)
GoodDf ==
    [columns |-> <<"Date", "Amount", "Description">>,
     rows |-> << <<Cell("2024-01-02"), Cell("100"), Cell("Salary")>>,
                 <<Cell("2024-01-03"), Cell("-50"), Cell("Grocery Mart")>> >>]

HeaderOnlyDf == [columns |-> <<"Date", "Amount", "Description">>, rows |-> <<>>]

NoFinancialColumnsDf ==
    [columns |-> <<"Name", "City">>, rows |-> << <<Cell("Ann"), Cell("Oslo")>> >>]

TextAmountDf ==
    [columns |-> <<"Date", "Amount">>, rows |-> << <<Cell("2024-01-02"), Cell("abc")>> >>]

BoolAmountDf ==
    [columns |-> <<"Date", "Amount">>, rows |-> << <<Cell("2024-01-02"), BoolCell(TRUE)>> >>]

Dataframes == {GoodDf, HeaderOnlyDf, NoFinancialColumnsDf, TextAmountDf, BoolAmountDf}

\* a file of zero bytes: pd.read_csv raises EmptyDataError ("No columns to
\* parse from file") whatever the encoding, and no table is built
ZeroByteRead == <<"EmptyDataError", "EmptyDataError", "EmptyDataError", "EmptyDataError">>

NoDataframe == [columns |-> <<>>, rows |-> <<>>]

CsvContents ==
    {[read_csv |-> r, df |-> df, raises |-> FALSE] :
        r \in {<<"ok", "ok", "ok", "ok">>,
               <<"UnicodeDecodeError", "ok", "ok", "ok">>,
               <<"UnicodeDecodeError", "Exception", "Exception", "ok">>},
        df \in Dataframes}
    \cup {[read_csv |-> r, df |-> HeaderOnlyDf, raises |-> FALSE] :
        r \in {<<"Exception", "Exception", "Exception", "Exception">>,
               <<"UnicodeDecodeError", "Exception", "Exception", "Exception">>}}
    \cup {[read_csv |-> ZeroByteRead, df |-> NoDataframe, raises |-> FALSE]}

Sheets ==
    {[read_raises |-> TRUE, df |-> GoodDf]}
    \cup {[read_raises |-> FALSE, df |-> df] :
            df \in {GoodDf, HeaderOnlyDf, NoFinancialColumnsDf, BoolAmountDf}}

ExcelContents ==
    {[open_raises |-> TRUE, exception |-> "File is not a zip file", sheets |-> <<>>,
      raises |-> FALSE, finalized |-> TRUE]}
    \cup {[open_raises |-> FALSE, exception |-> "", sheets |-> sh, raises |-> FALSE,
           finalized |-> fin] :
            sh \in SeqsUpTo(Sheets, MaxSheets), fin \in BOOLEAN}

Pages ==
    {[extract_raises |-> TRUE, text |-> ""]}
    \cup {[extract_raises |-> FALSE, text |-> t] :
            t \in {"", "Paid $1,234.56 and $,", "Fee -$20"}}

PdfContents ==
    {[open_raises |-> TRUE, exception |-> "EOF marker not found", pages |-> <<>>]}
    \cup {[open_raises |-> FALSE, exception |-> "", pages |-> pg] :
            pg \in SeqsUpTo(Pages, MaxPages)}

Texts == {"", " \n", "Rent -1,200 and $35.5 food", "no numbers", "0 , ."}

DocxContents ==
    {[open_raises |-> TRUE, exception |-> "Package not found", text |-> "", tables |-> 0]}
    \cup {[open_raises |-> FALSE, exception |-> "", text |-> t, tables |-> n] :
            t \in Texts, n \in {0, 2}}

TextContents ==
    {[read |-> r, exception |-> "Permission denied", text |-> t] :
        r \in {<<"ok", "ok", "ok">>,
               <<"UnicodeDecodeError", "ok", "ok">>,
               <<"UnicodeDecodeError", "UnicodeDecodeError", "UnicodeDecodeError">>,
               <<"UnicodeDecodeError", "Exception", "ok">>},
        t \in Texts}

NoContent == [nocontent |-> TRUE]

OtherPaths == {"archive.zip", "noext", ".csv", "dir.v2/file"}

\* a file: its path, whether it exists, and what its reader would observe
File(path, exists, content) ==
    [file_path |-> path, path_is_str |-> TRUE, exists |-> exists] @@ content

ExistingFiles ==
    {File(p, TRUE, c) : p \in {"data.csv", "DATA.CSV"}, c \in CsvContents}
    \cup {File(p, TRUE, c) : p \in {"book.xlsx", "old.xls"}, c \in ExcelContents}
    \cup {File("stmt.pdf", TRUE, c) : c \in PdfContents}
    \cup {File("report.docx", TRUE, c) : c \in DocxContents}
    \cup {File("notes.txt", TRUE, c) : c \in TextContents}
    \cup {File(p, TRUE, NoContent) : p \in OtherPaths}

MissingFiles ==
    {File(p, FALSE, NoContent) :
        p \in {"data.csv", "book.xlsx", "stmt.pdf", "report.docx", "notes.txt"}
              \cup OtherPaths}

\* an argument that is no path (None)
NoPath == [file_path |-> "", path_is_str |-> FALSE, exists |-> FALSE] @@ NoContent

Files == ExistingFiles \cup MissingFiles \cup {NoPath}

Init ==
    /\ pc = "idle"
    /\ arg = [op |-> "none"]
    /\ \E c \in Capabilities : Constructed(c)

\* the summary of the call kept in the processor
ProcessDocument_keeping_summary ==
    /\ pc = "idle"
    /\ calls < MaxCalls
    /\ \E f \in Files :
          /\ arg' = [op |-> "process_document", file |-> f]
          /\ LET r == process_document(f)
             IN  result' = r.result /\ invoked' = r.invoked /\ io' = r.io
                 /\ financial_data' = r.result
    /\ pc' = "done"
    /\ UNCHANGED <<caps, supported_formats, column_mapping, row_index, calls>>

ProcessDocument ==
    /\ pc = "idle"
    /\ calls < MaxCalls
    /\ \E f \in Files :
          /\ arg' = [op |-> "process_document", file |-> f]
          /\ LET r == process_document(f)
             IN  result' = r.result /\ invoked' = r.invoked /\ io' = r.io
    /\ pc' = "done"
    /\ UNCHANGED <<caps, supported_formats, financial_data, column_mapping, row_index,
                   calls>>

\* the caller has taken the result; the processor is ready for the next call
Return ==
    /\ pc = "done"
    /\ pc' = "idle"
    /\ arg' = [op |-> "none"]
    /\ result' = Nothing
    /\ invoked' = <<>>
    /\ io' = <<>>
    /\ calls' = calls + 1
    /\ UNCHANGED <<caps, supported_formats, financial_data, column_mapping, row_index>>

Next == ProcessDocument \/ Return

Spec == Init /\ [][Next]_vars

Called == pc = "done" /\ arg.op = "process_document"

\* the three totals every summary has, whichever reader built it
IsFinancialSummary(r) == {"total_income", "total_expenses", "categories"} \subseteq DOMAIN r

\* C1: no exception escapes process_document: for every argument the call
\* returns a summary or an error result.
C1_NoExceptionEscapes ==
    Called => /\ ~IsRaised(result)
              /\ IsError(result) \/ IsFinancialSummary(result)

\* the same for every argument that is a path
NoExceptionEscapesForPaths ==
    (Called /\ arg.file.path_is_str) =>
        /\ ~IsRaised(result)
        /\ IsError(result) \/ IsFinancialSummary(result)

\* C3: for a path that does not exist the result is the error File Not
\* Found whatever the extension, and no format reader is invoked.
C3_MissingFileFirst ==
    (Called /\ arg.file.path_is_str /\ ~arg.file.exists) =>
        /\ IsError(result)
        /\ result.error = "File Not Found"
        /\ invoked = <<>>

C3_Witness ==
    /\ Called
    /\ arg.file.file_path = "archive.zip"
    /\ ~arg.file.exists
    /\ IsError(result)
    /\ result.error = "File Not Found"

\* the extensions the capability flags make available
SupportedExtensions(c) ==
    (IF c.PANDAS_AVAILABLE THEN {".csv", ".txt"} ELSE {})
    \cup (IF c.PANDAS_AVAILABLE /\ c.EXCEL_AVAILABLE THEN {".xlsx", ".xls"} ELSE {})
    \cup (IF c.PDF_AVAILABLE THEN {".pdf"} ELSE {})
    \cup (IF c.DOCX_AVAILABLE THEN {".docx"} ELSE {})

\* the capability a reader works with
ReaderAvailable(reader) ==
    CASE reader = "_process_csv" -> caps.PANDAS_AVAILABLE
      [] reader = "_process_excel" -> caps.PANDAS_AVAILABLE /\ caps.EXCEL_AVAILABLE
      [] reader = "_process_pdf" -> caps.PDF_AVAILABLE
      [] reader = "_process_docx" -> caps.DOCX_AVAILABLE
      [] reader = "_process_text" -> TRUE

Detected == arg.op = "tabular" /\ pc \in {"rows", "done"} /\ ~empty(arg.df)

RolesMapped == required_columns \subseteq DOMAIN matched_columns(arg.df)

\* the values of the amount column the validation looks at
SampledAmounts ==
    head(dropna(Column(arg.df, matched_columns(arg.df)["amount"])), SampleSize)

\* C11: with the required roles mapped, the detection succeeds exactly when
\* at least one of the sampled amount values is valid under clean_amount,
\* so a column of values clean_amount accepts is never rejected.
C11_ValidationAgreesWithCleanAmount ==
    (Detected /\ RolesMapped) =>
        (IsMapping(column_mapping) <=>
            \E i \in 1..Len(SampledAmounts) : clean_amount(SampledAmounts[i]) # None)

\* what the validation does: it succeeds exactly when pd.to_numeric turns
\* one of the sampled values into a number
ValidationIsToNumeric ==
    (Detected /\ RolesMapped) =>
        (IsMapping(column_mapping) <=>
            \E i \in 1..Len(SampledAmounts) : to_numeric(SampledAmounts[i]) # NaN)

\* a column of amounts in parentheses, all valid under clean_amount, is rejected
AcceptedAmountsRejected ==
    /\ Detected /\ RolesMapped
    /\ Len(SampledAmounts) > 0
    /\ \A i \in 1..Len(SampledAmounts) : SampledAmounts[i] = Cell("(50.5)")
    /\ pc = "done"
    /\ result = csv_detection_error

\* the cells of the amount column
AmountColumn == Column(arg.df, matched_columns(arg.df)["amount"])

\* a string that is not a number in decimal notation, even once cleaned
NonNumericString(c) ==
    ~isna(c) /\ c.t = "str" /\ ~IsDecimalNumber(Residual(c))

OnlyNonNumericAmounts ==
    /\ arg.op = "tabular"
    /\ pc = "done"
    /\ RolesMapped
    /\ Len(arg.df.rows) > 0
    /\ \A i \in 1..Len(AmountColumn) : NonNumericString(AmountColumn[i])

\* C12: a table with recognizable date and amount headers whose amount
\* column contains only non-numeric strings yields the error Column
\* Detection Failed, never No Valid Transactions and never a summary.
C12_NonNumericAmountsRejected ==
    OnlyNonNumericAmounts => result = csv_detection_error

\* the same holds as long as no amount is a spelling of infinity
NonNumericAmountsRejectedButInfinity ==
    (OnlyNonNumericAmounts
        /\ \A i \in 1..Len(AmountColumn) : clean_amount(AmountColumn[i]).k # "inf")
    => result = csv_detection_error

\* a column of texts, one of them "inf", ends in a summary
InfinityColumnSummary ==
    /\ OnlyNonNumericAmounts
    /\ IsSummary(result)
    /\ result.total_income = Inf(1)

\* the overlap score of column i for the role r: the longest alias that is
\* part of the header, or the length of a header that is part of an alias
Overlaps(df, r, i) ==
    LET col == strip(lower(df.columns[i]))
        aliases == column_patterns[r].patterns
    IN  {IF contains(col, aliases[j]) THEN Len(aliases[j]) ELSE Len(col) :
            j \in {k \in 1..Len(aliases) :
                       contains(col, aliases[k]) \/ contains(aliases[k], col)}}

Score(df, r, i) ==
    IF Overlaps(df, r, i) = {} THEN 0
    ELSE CHOOSE n \in Overlaps(df, r, i) : \A k \in Overlaps(df, r, i) : k <= n

\* the earliest column among those with the highest score in sc
BestColumn(sc) ==
    CHOOSE i \in DOMAIN sc :
        /\ \A k \in DOMAIN sc : sc[k] <= sc[i]
        /\ \A k \in 1..(i - 1) : sc[k] < sc[i]

\* the mapping the scores determine
ScoredMapping(df) ==
    LET sc == [r \in 1..Len(column_patterns) |->
                  [i \in 1..Len(df.columns) |-> Score(df, r, i)]]
        roles == {r \in 1..Len(column_patterns) :
                     \E i \in 1..Len(df.columns) : sc[r][i] > 0}
    IN  [name \in {column_patterns[r].role : r \in roles} |->
            df.columns[BestColumn(sc[CHOOSE r \in roles :
                                         column_patterns[r].role = name])]]

\* the state the column detection leaves
JustDetected ==
    /\ Detected
    /\ \/ pc = "rows" /\ row_index = 1
       \/ pc = "done" /\ ~IsMapping(column_mapping)

\* C15: the column detection is a function of the table: each role goes to
\* the column with the highest overlap score, the earliest one in header
\* order on equal scores, and running the detection again on the same
\* table yields the same mapping.
C15_DetectionDeterministic ==
    JustDetected =>
        LET again == detect_csv_columns(arg.df)
        IN  /\ again = column_mapping
            /\ IsMapping(again) => again = ScoredMapping(arg.df)
            /\ ~IsMapping(again) =>
                   \/ ~(required_columns \subseteq DOMAIN ScoredMapping(arg.df))
                   \/ ~amount_is_numeric(arg.df, ScoredMapping(arg.df)["amount"])

C15_Witness ==
    /\ Detected
    /\ arg.df.columns = <<"Date", "Value Date", "Amount">>
    /\ Score(arg.df, 1, 1) = Score(arg.df, 1, 2)
    /\ Score(arg.df, 2, 2) > 0
    /\ column_mapping = [date |-> "Date", amount |-> "Amount"]

\* the documented example has been processed
ExampleProcessed == pc = "done" /\ arg.op = "tabular" /\ arg.df = ExampleTable

ExampleMapped ==
    /\ column_mapping = [date |-> "Transaction Date", amount |-> "Amount",
                         description |-> "Memo"]
    /\ IsSummary(result)
    /\ Len(result.transactions) = 2
    /\ result.transactions[1].description = "Paycheck"
    /\ result.transactions[1].category = "Income"
    /\ result.transactions[2].description = "Grocery Mart"
    /\ result.transactions[2].category = "Food"

\* C14 as stated: for the table with header Transaction Date, Amount, Memo
\* and rows (2024-01-01, 100, Paycheck), (2024-01-02, -50, Grocery Mart)
\* the detection maps date, amount and description and no category,
\* Grocery Mart is classified as Food and Paycheck as Income, the latter
\* by the default-by-sign rule because Paycheck matches no keyword.
C14_ExampleAsStated ==
    ExampleProcessed =>
        /\ ExampleMapped
        /\ Hits(result.transactions[1].description) = {}

\* C14 amended: the same mapping and categories, Paycheck being Income
\* because it contains the keyword paycheck of the category Income, the
\* first category of the table with a keyword in it.
C14_ExampleClassified ==
    ExampleProcessed =>
        /\ ExampleMapped
        /\ Hits(result.transactions[1].description) # {}
        /\ \A i \in Hits(result.transactions[1].description) :
               category_keywords[i].category = "Income"
        /\ auto_categorize_transaction("Paycheck", Fin(-100, 0)) = "Income"

C14_Witness ==
    /\ ExampleProcessed
    /\ IsSummary(result)
    /\ result.total_income = Fin(100, 0)
    /\ result.total_expenses = Fin(50, 0)

(***************************************************************************)
(* Properties of the readers (Spec).                                       *)
(***************************************************************************)
\* process_document has handed the file to the CSV reader
CsvRead == Called /\ invoked = <<"_process_csv">>

ZeroByteCsv == CsvRead /\ arg.file.read_csv = ZeroByteRead

\* a CSV that parses to the header row and no data row
HeaderOnlyCsv ==
    /\ CsvRead
    /\ first_ok(arg.file.read_csv, Len(encodings_to_try)) # 0
    /\ Len(arg.file.df.columns) > 0
    /\ Len(arg.file.df.rows) = 0

HasError(kind) == IsError(result) /\ result.error = kind

\* C13 as stated: a zero-byte CSV yields the error Empty File and a
\* header-only CSV the error No Valid Transactions; neither call raises.
C13_EmptyCsvAsStated ==
    /\ (ZeroByteCsv \/ HeaderOnlyCsv) => ~IsRaised(result)
    /\ ZeroByteCsv => HasError("Empty File")
    /\ HeaderOnlyCsv => HasError("No Valid Transactions")

\* C13 amended: a zero-byte CSV, which no encoding parses, yields the error
\* CSV Reading Error, and a header-only CSV yields the error Empty File;
\* neither call raises.
C13_EmptyCsvErrors ==
    /\ (ZeroByteCsv \/ HeaderOnlyCsv) => ~IsRaised(result)
    /\ ZeroByteCsv => HasError("CSV Reading Error")
    /\ HeaderOnlyCsv => HasError("Empty File")

C13_Witness ==
    /\ HeaderOnlyCsv
    /\ arg.file.read_csv[1] = "UnicodeDecodeError"
    /\ HasError("Empty File")

\* the zero-byte file reaches the reader too
ZeroByteCsvRead == ZeroByteCsv /\ HasError("CSV Reading Error")

\* process_document has opened the workbook and gone through its sheets
ExcelRead == Called /\ invoked = <<"_process_excel">> /\ ~arg.file.open_raises

\* a sheet that reads without an exception, is not empty and has a mapping
Usable(sheet) ==
    ~sheet.read_raises /\ ~empty(sheet.df) /\ IsMapping(detect_csv_columns(sheet.df))

UsableSheets == {i \in 1..Len(arg.file.sheets) : Usable(arg.file.sheets[i])}

\* the sheets read, in the order of the reads
SheetsRead ==
    LET reads == SelectSeq(io, LAMBDA e : e.op = "read_excel")
    IN  [i \in 1..Len(reads) |-> reads[i].sheet]

\* C16: the sheets of a workbook are tried in workbook order; empty sheets,
\* sheets failing the column detection and sheets whose read raises are
\* skipped; the result is the extraction result of the first sheet with a
\* mapping and no later sheet is read; without such a sheet the result is
\* the error Excel Processing Failed (no financial data).
C16_FirstMappedSheet ==
    ExcelRead =>
        IF UsableSheets = {}
        THEN /\ HasError("Excel Processing Failed")
             /\ SheetsRead = [i \in 1..Len(arg.file.sheets) |-> i]
        ELSE LET first == CHOOSE i \in UsableSheets : \A j \in UsableSheets : i <= j
                 df == arg.file.sheets[first].df
             IN  /\ result = extract_transactions_from_dataframe(
                                 df, detect_csv_columns(df), FALSE)
                 /\ SheetsRead = [i \in 1..first |-> i]

C16_Witness ==
    /\ ExcelRead
    /\ Len(arg.file.sheets) = 2
    /\ UsableSheets = {1, 2}
    /\ arg.file.sheets[1].df = BoolAmountDf
    /\ HasError("No Valid Transactions")
    /\ SheetsRead = <<1>>

\* a workbook whose first sheet is skipped and whose second is extracted
SecondSheetExtracted ==
    /\ ExcelRead
    /\ UsableSheets = {2}
    /\ IsSummary(result)
    /\ SheetsRead = <<1, 2>>

\* the encodings the reader tried on the file, in the order of the attempts
EncodingsTried ==
    LET attempts == SelectSeq(io, LAMBDA e :
                        e.op = "read_csv"
                        \/ (e.op \in {"open", "open_error"}
                              /\ invoked = <<"_process_text">>))
    IN  [i \in 1..Len(attempts) |-> attempts[i].name]

FixedEncodings == <<"utf-8", "latin-1", "cp1252", "iso-8859-1">>

IsPrefix(s, t) == Len(s) <= Len(t) /\ s = SubSeq(t, 1, Len(s))

\* C17: the CSV reader tries utf-8, latin-1, cp1252, iso-8859-1 in that
\* order, stops at the first encoding that parses, tries none twice and
\* returns the error CSV Reading Error exactly when all four fail; no call
\* of process_document makes more than four encoding attempts.
C17_EncodingFallbackBounded ==
    /\ Called =>
          /\ Len(EncodingsTried) <= 4
          /\ IsPrefix(EncodingsTried, FixedEncodings)
    /\ CsvRead =>
          LET n == Len(EncodingsTried)
          IN  /\ n >= 1
              /\ \A i \in 1..(n - 1) : arg.file.read_csv[i] # "ok"
              /\ n < 4 => arg.file.read_csv[n] = "ok"
              /\ HasError("CSV Reading Error")
                     <=> \A i \in 1..4 : arg.file.read_csv[i] # "ok"

C17_Witness ==
    /\ CsvRead
    /\ EncodingsTried = FixedEncodings
    /\ arg.file.read_csv[4] = "ok"
    /\ IsSummary(result)

\* the text reader gives up on its three encodings
TextEncodingsExhausted ==
    /\ Called
    /\ invoked = <<"_process_text">>
    /\ EncodingsTried = <<"utf-8", "latin-1", "cp1252">>
    /\ HasError("Text Reading Error")

\* the handle opened by event i of the call is closed by a later event
Released(i) ==
    \E j \in (i + 1)..Len(io) : io[j].op = "close" /\ io[j].name = io[i].name

\* C18: every file handle opened by process_document is released before
\* the call returns, on every exit path of every reader.
C18_HandlesReleased ==
    Called => \A i \in 1..Len(io) : io[i].op = "open" => Released(i)

\* the handles of the PDF and of the text reader are released on every path
HandlesReleasedButWorkbook ==
    (Called /\ invoked # <<"_process_excel">>) =>
        \A i \in 1..Len(io) : io[i].op = "open" => Released(i)

\* the workbook is still open when the call returns its summary
WorkbookLeftOpen ==
    /\ ExcelRead
    /\ IsSummary(result)
    /\ io[1] = Event("open", "ExcelFile", 0)
    /\ ~Released(1)

ErrorKinds ==
    [FileNotFound |-> {"File Not Found"},
     UnsupportedFormat |-> {"Unsupported Format"},
     EncodingFailure |-> {"CSV Reading Error", "Text Reading Error"},
     EmptyFile |-> {"Empty File", "Empty PDF", "Empty Document"},
     ColumnDetectionFailed |-> {"Column Detection Failed"},
     NoFinancialData |-> {"Excel Processing Failed", "PDF Text Extraction Failed"},
     NoValidTransactions |-> {"No Valid Transactions"},
     ProcessingException |-> {"Processing Exception", "Processing Error",
                              "CSV Processing Error", "Excel Processing Error",
                              "PDF Processing Error", "Word Processing Error",
                              "Text Processing Error", "Transaction Extraction Error"}]

HasKind(kind) == IsError(result) /\ result.error \in ErrorKinds[kind]

\* the exceptions of the call that no fallback of a reader handles (a
\* failed encoding, an unreadable sheet or page are handled): the text of
\* the exception, or its type for the one raised on an argument that is
\* no path
UnhandledExceptions ==
    IF ~arg.file.path_is_str THEN {"TypeError"}
    ELSE IF invoked \in {<<"_process_excel">>, <<"_process_pdf">>, <<"_process_docx">>}
    THEN (IF arg.file.open_raises THEN {arg.file.exception} ELSE {})
    ELSE IF invoked = <<"_process_text">>
    THEN (IF \E i \in 1..Len(arg.file.read) :
                 /\ arg.file.read[i] = "Exception"
                 /\ \A j \in 1..(i - 1) : arg.file.read[j] = "UnicodeDecodeError"
          THEN {arg.file.exception} ELSE {})
    ELSE {}

\* C20: every error result of process_document has a kind of the closed
\* taxonomy, and every unexpected exception raised during the processing
\* is reported as a Processing Exception carrying the exception's message.
C20_ErrorTaxonomy ==
    Called =>
        /\ IsError(result) => \E kind \in DOMAIN ErrorKinds : HasKind(kind)
        /\ \A e \in UnhandledExceptions :
               HasKind("ProcessingException") /\ result.message = e

\* the same for every argument that is a path
ErrorTaxonomyForPaths ==
    (Called /\ arg.file.path_is_str) =>
        /\ IsError(result) => \E kind \in DOMAIN ErrorKinds : HasKind(kind)
        /\ \A e \in UnhandledExceptions :
               HasKind("ProcessingException") /\ result.message = e

\* an exception inside a reader reported with its message
ReaderExceptionReported ==
    /\ Called
    /\ invoked = <<"_process_pdf">>
    /\ UnhandledExceptions = {"EOF marker not found"}
    /\ HasKind("ProcessingException")
    /\ result.message = "EOF marker not found"

(***************************************************************************)
(* Properties of create_sample_data (SpecTabular)                          *)
(***************************************************************************)
SampleDone == pc = "done" /\ arg.op = "create_sample_data"

\* a < b for finite numbers
flt(a, b) == fpos(fsub(b, a))

\* C21: create_sample_data returns, for every invocation date, a result that
\* is not an error, has the fields of a summary, and whose total_income is
\* strictly greater than its total_expenses.
C21_SamplePositiveCashFlow ==
    SampleDone =>
        /\ ~IsError(result)
        /\ IsFinancialSummary(result)
        /\ flt(result.total_expenses, result.total_income)

\* the sample built on 10 January, whose dates start in the previous year
C21_Witness ==
    /\ SampleDone
    /\ arg.now.month = 1
    /\ result.transactions[1].date = "2024-12-12"
    /\ fpos(result.total_expenses)

KeywordCategories == {category_keywords[i].category : i \in DOMAIN category_keywords}

SampleExpenses == {i \in DOMAIN result.transactions : fneg(result.transactions[i].amount)}

SampleLabels == {result.transactions[i].category : i \in DOMAIN result.transactions}

\* C22: in the result of create_sample_data the category of every expense
\* transaction (amount < 0) is a category of the keyword table or the
\* default "Other Expenses".
C22_SampleExpenseCategoriesKnown ==
    SampleDone =>
        \A i \in SampleExpenses :
            result.transactions[i].category \in KeywordCategories \cup {"Other Expenses"}

\* the labels of the sample's expenses that the classifier never produces
SampleLabelsOutsideTable ==
    SampleDone =>
        {result.transactions[i].category : i \in SampleExpenses} \ KeywordCategories
            = {"Utilities", "Groceries", "Dining Out", "Personal Care", "Insurance",
               "Investment", "Other", "Fees"}

\* C23: the result of create_sample_data has at least one income transaction
\* and, for every category of the keyword table, at least one transaction
\* labelled with that category.
C23_SampleCoversEveryCategory ==
    SampleDone =>
        /\ \E i \in DOMAIN result.transactions : fpos(result.transactions[i].amount)
        /\ KeywordCategories \subseteq SampleLabels

\* the categories of the keyword table that label no sample transaction
SampleCategoriesMissing ==
    SampleDone =>
        /\ \E i \in DOMAIN result.transactions : fpos(result.transactions[i].amount)
        /\ KeywordCategories \ SampleLabels = {"Food", "Income"}

\* an amount in whole cents
Cents(a) == IF a.e <= 2 THEN a.m * Pow10(2 - a.e) ELSE a.m \div Pow10(a.e - 2)

\* C24: the documented sample scenario holds: total_income is $5,200,
\* total_expenses is $3,450 and net_cash_flow is $1,750 (compared in cents).
C24_DocumentedScenario ==
    SampleDone =>
        /\ Cents(result.total_income) = 520000
        /\ Cents(result.total_expenses) = 345000
        /\ Cents(result.net_cash_flow) = 175000

\* what the thirty-six transactions add up to
SampleTotals ==
    SampleDone =>
        /\ Cents(result.total_income) = 520000
        /\ Cents(result.total_expenses) = 452398
        /\ Cents(result.net_cash_flow) = 67602
        /\ result.sample_info.transaction_count = 36

(***************************************************************************)
(* Properties of the row loop (SpecTabular)                                *)
(***************************************************************************)
CategoryMapped == "category" \in DOMAIN column_mapping

RawCategory(i) == RowGet(arg.df, arg.df.rows[i], column_mapping["category"])

\* the loop is at a row that it turns into a transaction
AtValidRow == AtRow /\ clean_amount(RawAmount(row_index)) # None

LastTransaction(fd) == fd.transactions[Len(fd.transactions)]

Classified(t) == auto_categorize_transaction(t.description, t.amount)

\* C25: when a category column is mapped and the row's cell is non-empty and
\* non-null, the transaction's category is the cell's value verbatim (the
\* classifier is not consulted); otherwise it is the classifier's category
\* for the description and the amount.
C25_ProvidedCategoryVerbatim ==
    [][AtValidRow =>
          LET t == LastTransaction(financial_data')
          IN  IF /\ CategoryMapped
                 /\ ~isna(RawCategory(row_index))
                 /\ str(RawCategory(row_index)) # ""
              THEN t.category = str(RawCategory(row_index))
              ELSE t.category = Classified(t)]_vars

\* the text of a category cell counts as absent
NoCategoryText(text) ==
    \/ \A i \in 1..Len(text) : Char(text, i) \in Whitespace
    \/ lower(strip(text)) \in {"nan", "none"}

\* C25 as the code has it: the provided category is the cell's text without
\* the surrounding whitespace, and a text that is blank or spells nan or
\* none in any case is classified like a missing cell.
C25_ProvidedCategoryStripped ==
    [][AtValidRow =>
          LET t == LastTransaction(financial_data')
          IN  IF CategoryMapped /\ ~NoCategoryText(str(RawCategory(row_index)))
              THEN t.category = strip(str(RawCategory(row_index)))
              ELSE t.category = Classified(t)]_vars

\* a padded category kept without its padding, then a text spelling none
\* replaced by the classifier's category
C25_Witness ==
    /\ pc = "rows"
    /\ CategoryMapped
    /\ Len(financial_data.transactions) = 2
    /\ str(RawCategory(1)) = " Pets "
    /\ financial_data.transactions[1].category = "Pets"
    /\ str(RawCategory(2)) = "NONE"
    /\ financial_data.transactions[2].category = "Food"

\* C26: in every summary of the tabular extraction successful_transactions
\* plus skipped_rows is rows_processed, the transactions are as many as
\* successful_transactions, and they are the successful rows in the order of
\* the table.
C26_RowAccounting ==
    (Extracted /\ IsSummary(result)) =>
        LET info == result.processing_info
        IN  /\ info.successful_transactions + info.skipped_rows = info.rows_processed
            /\ info.rows_processed = Len(arg.df.rows)
            /\ Len(result.transactions) = info.successful_transactions
            /\ Len(result.transactions) = Len(ValidRows)
            /\ \A i \in 1..Len(ValidRows) :
                   /\ result.transactions[i].amount = clean_amount(RawAmount(ValidRows[i]))
                   /\ result.transactions[i].date
                          = clean_date(RawDate(ValidRows[i]), arg.raises)

\* a table of two rows whose first row is skipped
C26_Witness ==
    /\ Extracted
    /\ IsSummary(result)
    /\ Len(arg.df.rows) = 2
    /\ result.processing_info.skipped_rows = 1
    /\ result.processing_info.successful_transactions = 1
    /\ clean_amount(RawAmount(1)) = None

\* a summary of two transactions whose amounts differ
TwoRowsInOrder ==
    /\ Extracted
    /\ IsSummary(result)
    /\ Len(result.transactions) = 2
    /\ result.transactions[1].amount # result.transactions[2].amount

\* C27: in every mapping that the column detection returns the roles refer
\* to pairwise different columns; in particular date and amount are never
\* mapped to the same column, whatever the header names.
C27_RolesOnDifferentColumns ==
    (Detected /\ IsMapping(column_mapping)) =>
        /\ \A r1, r2 \in DOMAIN column_mapping :
               r1 # r2 => column_mapping[r1] # column_mapping[r2]
        /\ column_mapping["date"] # column_mapping["amount"]

\* a returned mapping whose date and amount are one column
DateIsAmountColumn ==
    /\ Detected
    /\ IsMapping(column_mapping)
    /\ column_mapping["date"] = column_mapping["amount"]
    /\ Len(arg.df.columns) = 1

\* a returned mapping of a table with an amount column of its own, whose
\* date and description are one column
DateIsDescriptionColumn ==
    /\ Detected
    /\ IsMapping(column_mapping)
    /\ column_mapping["amount"] = " AMT "
    /\ column_mapping["date"] = "d"
    /\ "description" \in DOMAIN column_mapping
    /\ column_mapping["description"] = "d"

(***************************************************************************)
(* Properties of the PDF, Word and text readers (Spec)                     *)
(***************************************************************************)
PatternRead == Called /\ invoked \in {<<"_process_pdf">>, <<"_process_docx">>, <<"_process_text">>}

\* C28: every result of the PDF, Word and text readers that is not an error
\* has total_expenses 0 and one categories entry of value 0: every detected
\* amount is non-negative and counted in total_income.
C28_PatternReadersNoExpenses ==
    (PatternRead /\ ~IsError(result)) =>
        /\ result.total_expenses = Zero
        /\ Cardinality(DOMAIN result.categories) = 1
        /\ \A c \in DOMAIN result.categories : result.categories[c] = Zero
        /\ \A i \in DOMAIN result.detected_amounts : ~fneg(result.detected_amounts[i])
        /\ result.total_income = SumAmounts(result.detected_amounts)

\* a PDF whose text shows a negative dollar amount
C28_Witness ==
    /\ Called
    /\ invoked = <<"_process_pdf">>
    /\ ~IsError(result)
    /\ \E n \in DOMAIN arg.file.pages : arg.file.pages[n].text = "Fee -$20"
    /\ Fin(20, 0) \in Range(result.detected_amounts)
    /\ fpos(result.total_income)

\* a text file whose text shows a negative amount
NegativeTextRead ==
    /\ Called
    /\ invoked = <<"_process_text">>
    /\ ~IsError(result)
    /\ result.detected_amounts = <<Fin(1200, 0), Fin(355, 1)>>

(***************************************************************************)
(* app.py: the upload validation, the content validation and the two       *)
(* analysis entry points.  Texts are given without their emoji and         *)
(* markdown; a long report is given by its headline.  An upload is a file  *)
(* as above together with its size in bytes; file_upload.name is its path. *)
(***************************************************************************)
NoUpload == [no_upload |-> TRUE]

Upload(f, size) == f @@ [size |-> size]

Status(status, filename, message) ==
    [status |-> status, filename |-> filename, message |-> message]

\* validate_uploaded_file; the first line of a CSV file is its header line,
\* and the first sheet of a workbook is what pd.read_excel returns.  The
\* size of an existing file can always be read.
validate_uploaded_file(u) ==
    IF u = NoUpload THEN Status("no_file", "", "")
    ELSE IF ~u.exists THEN Status("file_not_found", u.file_path, "File does not exist")
    ELSE IF u.size = 0 THEN Status("empty_file", u.file_path, "File is empty (0 bytes)")
    ELSE IF u.size < 10 THEN Status("too_small", u.file_path, "File is too small")
    ELSE LET file_ext == lower(splitext_ext(u.file_path))
         IN  IF file_ext = ".csv"
             THEN IF u.read_csv[1] = "UnicodeDecodeError"
                  THEN Status("content_error", u.file_path, "Cannot validate file content")
                  ELSE LET first_line == strip(join(",", u.df.columns))
                       IN  IF Len(first_line) = 0
                           THEN Status("no_content", u.file_path, "CSV file has no content")
                           ELSE IF Len(first_line) < 5
                           THEN Status("insufficient_content", u.file_path,
                                       "CSV content appears insufficient")
                           ELSE Status("valid", u.file_path, "File appears valid")
             ELSE IF file_ext \in {".xlsx", ".xls"}
             THEN IF u.open_raises \/ u.sheets[1].read_raises
                  THEN Status("excel_error", u.file_path, "Cannot read Excel file")
                  ELSE IF empty(u.sheets[1].df)
                  THEN Status("no_content", u.file_path, "Excel file has no data")
                  ELSE IF Len(u.sheets[1].df.columns) = 0
                  THEN Status("no_columns", u.file_path, "Excel file has no columns")
                  ELSE Status("valid", u.file_path, "File appears valid")
             ELSE Status("valid", u.file_path, "File appears valid")

\* the text of a table: the header line and one line per row
table_text(df) ==
    join("\n", <<join(",", df.columns)>>
               \o [i \in 1..Len(df.rows) |->
                      join(",", [j \in 1..Len(df.rows[i]) |-> str(df.rows[i][j])])])

\* the text of pages i..n, up to the first page whose extraction raises
RECURSIVE pages_text(_, _, _)
pages_text(pages, i, n) ==
    IF i > n \/ pages[i].extract_raises THEN ""
    ELSE pages[i].text \o pages_text(pages, i + 1, n)

PeekPages == 3

\* the file content that validate_financial_content reads for context
file_content(u) ==
    LET file_ext == lower(splitext_ext(u.file_path))
    IN  IF file_ext = ".pdf"
        THEN IF u.open_raises THEN ""
             ELSE pages_text(u.pages, 1, Min(PeekPages, Len(u.pages)))
        ELSE IF file_ext = ".csv"
        THEN IF u.read_csv[1] = "UnicodeDecodeError" THEN "" ELSE table_text(u.df)
        ELSE IF file_ext \in {".xlsx", ".xls"}
        THEN IF u.open_raises \/ u.sheets[1].read_raises THEN ""
             ELSE table_text(u.sheets[1].df)
        ELSE ""

educational_keywords ==
    {"course", "session", "learning", "training", "education", "curriculum",
     "bootcamp", "workshop", "seminar", "lecture", "chapter", "lesson",
     "instructor", "student", "professor", "university", "college",
     "prerequisites", "syllabus", "assignment", "homework", "exam",
     "modern ai pro", "ai essentials", "machine learning", "neural network",
     "transformer", "llm", "gpt", "artificial intelligence"}

financial_keywords ==
    {"transaction", "payment", "deposit", "withdrawal", "balance",
     "expense", "income", "salary", "bill", "purchase", "debit",
     "credit", "bank", "account", "receipt", "invoice", "spending",
     "budget", "money", "dollar", "cost", "price", "fee"}

\* the indicators without the one of the PDF reader's category
non_financial_indicators_without_pdf ==
    {"page", "section", "chapter", "course", "session", "notebook"}

non_financial_indicators ==
    {"pdf", "page", "section", "chapter", "course", "session", "notebook"}

\* sum(1 for keyword in keywords if keyword in content_lower)
keyword_count(keywords, content_lower) ==
    Cardinality({k \in keywords : contains(content_lower, k)})

\* the incomes that look like page numbers
page_number_incomes == {Fin(n, 0) : n \in {75, 36, 35, 34, 33, 32, 31, 30}}

MetadataIncome == 500

EducationalMany == 5

EducationalSome == 3

Verdict(is_financial, message) == [is_financial |-> is_financial, message |-> message]

\* validate_financial_content.  An indicator is made of letters, so it is in
\* the lower-cased text of the dictionary exactly when it is in the
\* lower-cased text of one of its keys.
validate_financial_content(fd, u) ==
    LET content_lower == lower(file_content(u))
        educational_count == keyword_count(educational_keywords, content_lower)
        financial_count == keyword_count(financial_keywords, content_lower)
        income == fd.total_income
        expenses == fd.total_expenses
        categories == fd.categories
    IN  IF educational_count >= EducationalMany
        THEN Verdict(FALSE, "Document appears to be educational content")
        ELSE IF flt(income, Fin(MetadataIncome, 0)) /\ expenses = Zero
        THEN Verdict(FALSE, "Financial amounts appear to be extracted metadata rather than actual transactions")
        ELSE IF DOMAIN categories = {}
        THEN Verdict(FALSE, "No expense categories found in document")
        ELSE IF \E c \in DOMAIN categories, indicator \in non_financial_indicators :
                    contains(lower(c), indicator)
        THEN Verdict(FALSE, "Categories appear to contain document metadata rather than financial categories")
        ELSE IF educational_count > financial_count /\ educational_count >= EducationalSome
        THEN Verdict(FALSE, "Document appears to be educational")
        ELSE IF income \in page_number_incomes /\ expenses = Zero
        THEN Verdict(FALSE, "Income amount appears to be a page number or document metadata")
        ELSE Verdict(TRUE, "Content appears to contain financial data")

\* the module flags set by the imports
Environments ==
    [DATA_PROCESSOR_AVAILABLE : BOOLEAN, AGENTS_AVAILABLE : BOOLEAN,
     VISUALIZER_AVAILABLE : BOOLEAN]

\* AIFinancialCoach.__init__ creates the data processor only when the
\* visualizer is available as well
has_data_processor(env) == env.DATA_PROCESSOR_AVAILABLE /\ env.VISUALIZER_AVAILABLE

sample_error_note == "Using sample data due to file processing error. "

processed_note == "Successfully processed your financial document. "

sample_demo_note == "Using sample financial data for demonstration. "

\* the report of the agents or of the fallback analysis, whose text depends
\* on the figures only
comprehensive_report == "## Financial Analysis Summary"

analysis_error_message == "Error Processing Your Financial Analysis"

\* the sample figures used when the data processor cannot be imported
fallback_sample_data ==
    [total_income |-> Fin(5000, 0),
     total_expenses |-> Fin(3500, 0),
     categories |-> [c \in {"Rent", "Food", "Transport", "Utilities"} |->
                        CASE c = "Rent" -> Fin(1200, 0)
                          [] c = "Food" -> Fin(400, 0)
                          [] c = "Transport" -> Fin(300, 0)
                          [] c = "Utilities" -> Fin(200, 0)]]

Analysis(text, d, source, cs) ==
    [report |-> text, data |-> d, data_source |-> source, called |-> cs]

\* The body of AIFinancialCoach.analyze_finances, given what its calls
\* return: fd is the result of process_document (lines 197-198) and sample
\* that of create_sample_data (lines 200, 205).
analysis_from(u, env, analysis_raises, fd, sample) ==
    LET uploaded == u # NoUpload /\ env.DATA_PROCESSOR_AVAILABLE
        called == IF uploaded /\ has_data_processor(env)
                  THEN <<"process_document">> ELSE <<>>
        data == IF uploaded
                THEN IF IsError(fd) THEN sample ELSE fd
                ELSE IF env.DATA_PROCESSOR_AVAILABLE THEN sample
                ELSE fallback_sample_data
        data_source == IF uploaded
                       THEN IF IsError(fd) THEN "sample after error" ELSE "document"
                       ELSE "sample"
        report_note == IF uploaded
                       THEN IF IsError(fd) THEN sample_error_note ELSE processed_note
                       ELSE sample_demo_note
    IN  IF uploaded /\ ~has_data_processor(env)
        THEN Analysis(analysis_error_message, Nothing, "none", called)
        ELSE IF env.AGENTS_AVAILABLE /\ analysis_raises
        THEN Analysis(analysis_error_message, Nothing, "none", called)
        ELSE Analysis(report_note \o comprehensive_report, data, data_source, called)

\* AIFinancialCoach.analyze_finances: the report, and the data it is
\* computed from.  analysis_raises: an agent or the conversion of the extra
\* payment raises; the fallback analysis has nothing that raises.
analyze_finances(u, env, now, analysis_raises) ==
    analysis_from(u, env, analysis_raises,
                  IF u # NoUpload /\ has_data_processor(env)
                  THEN process_document(u).result ELSE Nothing,
                  create_sample_data(now))

\* s.replace(sub, "")
RECURSIVE replace_with_nothing(_, _)
replace_with_nothing(s, sub) ==
    IF contains(s, sub)
    THEN LET i == CHOOSE i \in 0..(Len(s) - Len(sub)) :
                      /\ SubSeq(s, i + 1, i + Len(sub)) = sub
                      /\ \A j \in 0..(i - 1) : SubSeq(s, j + 1, j + Len(sub)) # sub
         IN  SubSeq(s, 1, i) \o replace_with_nothing(SubSeq(s, i + Len(sub) + 1, Len(s)), sub)
    ELSE s

validation_passed_note(filename) ==
    "File validation passed: " \o filename \o " - Processing financial data...\n\n"

no_file_note == "Sample Data Analysis - No file uploaded, using demonstration data.\n\n"

Outcome(kind, text, d, source, cs) ==
    [kind |-> kind, report |-> text, data |-> d, data_source |-> source, called |-> cs]

\* the report returned for a file the validation rejects
rejected_upload(v) ==
    IF v.status = "empty_file"
    THEN Outcome("empty_file", "## Empty File Detected", Nothing, "none",
                 <<"validate_uploaded_file">>)
    ELSE IF v.status = "too_small"
    THEN Outcome("too_small", "## File Too Small", Nothing, "none",
                 <<"validate_uploaded_file">>)
    ELSE IF v.status = "no_content"
    THEN Outcome("no_content", "## No Data Found in File", Nothing, "none",
                 <<"validate_uploaded_file">>)
    ELSE Outcome("file_error", "## File Processing Error", Nothing, "none",
                 <<"validate_uploaded_file">>)

\* The tail of analyze_finances_with_plots (lines 586-667), given what its
\* calls return: v is the status of validate_uploaded_file, document the
\* result of process_document (line 595), verdict that of
\* validate_financial_content (line 603) and analysis that of
\* coach.analyze_finances (line 641).
report_with_plots(v, flags, document, verdict, analysis) ==
    LET processed == v.status = "valid" /\ flags.DATA_PROCESSOR_AVAILABLE
        checked == processed /\ has_data_processor(flags) /\ ~IsError(document)
        file_success_note == IF v.status = "valid"
                             THEN validation_passed_note(v.filename)
                             ELSE no_file_note
        final_report ==
            IF startswith(analysis.report, "Using sample data due to file processing error.")
            THEN replace_with_nothing(analysis.report, sample_error_note)
            ELSE analysis.report
        calls_made == <<"validate_uploaded_file">>
                      \o (IF processed /\ has_data_processor(flags)
                          THEN <<"process_document">> ELSE <<>>)
                      \o (IF checked THEN <<"validate_financial_content">> ELSE <<>>)
    IN  IF v.status \in {"empty_file", "too_small", "no_content", "file_not_found",
                         "size_error", "content_error", "excel_error"}
        THEN rejected_upload(v)
        ELSE IF processed /\ ~has_data_processor(flags)
        THEN Outcome("system_error", "## Analysis Error", Nothing, "none", calls_made)
        ELSE IF ~verdict.is_financial
        THEN Outcome("non_financial", "## Non-Financial Content Detected", Nothing,
                     "none", calls_made)
        ELSE Outcome("analysis", file_success_note \o final_report, analysis.data,
                     analysis.data_source,
                     calls_made \o <<"analyze_finances">> \o analysis.called
                         \o (IF processed THEN <<"process_document">> ELSE <<>>))

\* lines 601-632: the content of a document that was read is validated
checked_upload(v, file_upload, flags, document, analysis) ==
    report_with_plots(v, flags, document,
                      IF v.status = "valid" /\ has_data_processor(flags)
                         /\ ~IsError(document)
                      THEN validate_financial_content(document, file_upload)
                      ELSE Verdict(TRUE, ""),
                      analysis)

\* lines 586-599: a valid file is read by process_document
validated_upload(v, file_upload, flags, analysis) ==
    checked_upload(v, file_upload, flags,
                   IF v.status = "valid" /\ has_data_processor(flags)
                   THEN process_document(file_upload).result ELSE Nothing,
                   analysis)

\* analyze_finances_with_plots: what it returns and the calls it makes.  The
\* file is read the same way by every call of process_document.
analyze_finances_with_plots(file_upload, flags, today, raises) ==
    validated_upload(validate_uploaded_file(file_upload), file_upload, flags,
                     analyze_finances(file_upload, flags, today, raises))

(***************************************************************************)
(* SpecApp: one request of the web interface, or one direct call of        *)
(* AIFinancialCoach.analyze_finances, on an upload.                        *)
(***************************************************************************)
\* a table of course material
CourseDf ==
    [columns |-> <<"Date", "Amount", "Description">>,
     rows |-> << <<Cell("2024-01-02"), Cell("100"), Cell("course session lesson exam llm")>>,
                 <<Cell("2024-01-03"), Cell("-50"), Cell("Grocery Mart")>> >>]

\* a table whose header line has fewer than five characters
ShortHeaderDf == [columns |-> <<"t">>, rows |-> << <<Cell("100")>> >>]

ZeroByteContent == [read_csv |-> ZeroByteRead, df |-> NoDataframe, raises |-> FALSE]

UploadedCsvContents ==
    (CsvContents \ {ZeroByteContent})
    \cup {[read_csv |-> <<"ok", "ok", "ok", "ok">>, df |-> df, raises |-> FALSE] :
            df \in {CourseDf, ShortHeaderDf}}

UploadedExcelContents ==
    {c \in ExcelContents : c.finalized /\ (c.open_raises \/ Len(c.sheets) >= 1)}


Uploads ==
    {NoUpload}
    \cup {Upload(File("data.csv", TRUE, c), 100) : c \in UploadedCsvContents}
    \cup {Upload(File("data.csv", TRUE, ZeroByteContent), 0)}
    \cup {Upload(File("book.xlsx", TRUE, c), 100) : c \in UploadedExcelContents}
    \cup {Upload(File("stmt.pdf", TRUE, c), 100) : c \in PdfContents}
    \cup {Upload(File("report.docx", TRUE, c), 100) : c \in DocxContents}
    \cup {Upload(File("notes.txt", TRUE, c), 100) : c \in TextContents}
    \cup {Upload(File("notes.txt", TRUE,
                      [read |-> <<"ok", "ok", "ok">>, exception |-> "", text |-> "0 , ."]), 5)}
    \cup {Upload(File(p, TRUE, NoContent), 100) : p \in OtherPaths}
    \cup {Upload(File("data.csv", FALSE, NoContent), 0)}

InitApp ==
    /\ pc = "start"
    /\ \E op \in {"analyze_finances_with_plots", "analyze_finances"},
          u \in Uploads, env \in Environments, now \in Today, raises \in BOOLEAN :
          /\ raises => env.AGENTS_AVAILABLE
          /\ arg = [op |-> op, upload |-> u, env |-> env, now |-> now,
                    analysis_raises |-> raises]
    /\ Constructed(AllCapabilities)

\* the response o is returned: its report, the data behind it and the calls
\* made on the way are what the state keeps
Respond(o) ==
    /\ result' = [kind |-> o.kind, report |-> o.report, data_source |-> o.data_source]
    /\ financial_data' = o.data
    /\ invoked' = o.called

\* the return value of analyze_finances as a response
analysis_outcome(a) == Outcome("analysis", a.report, a.data, a.data_source, a.called)

AnalyzeFinancesWithPlots ==
    /\ pc = "start"
    /\ arg.op = "analyze_finances_with_plots"
    /\ Respond(analyze_finances_with_plots(arg.upload, arg.env, arg.now,
                                           arg.analysis_raises))
    /\ pc' = "done"
    /\ UNCHANGED <<arg, caps, supported_formats, column_mapping, row_index, io, calls>>

AnalyzeFinances ==
    /\ pc = "start"
    /\ arg.op = "analyze_finances"
    /\ Respond(analysis_outcome(analyze_finances(arg.upload, arg.env, arg.now,
                                                 arg.analysis_raises)))
    /\ pc' = "done"
    /\ UNCHANGED <<arg, caps, supported_formats, column_mapping, row_index, io, calls>>

NextApp ==
    \/ AnalyzeFinancesWithPlots
    \/ AnalyzeFinances

SpecApp == InitApp /\ [][NextApp]_vars

(***************************************************************************)
(* Properties of the web interface (SpecApp)                               *)
(***************************************************************************)
Requested == pc = "done" /\ arg.op = "analyze_finances_with_plots"

Uploaded == arg.upload # NoUpload

\* the report names sample data as its source
StatesSampleData(report) ==
    \E words \in {"sample data", "Sample Data", "sample financial data"} :
        contains(report, words)

\* the report presents the upload as validated or processed
PresentsFileAsProcessed(report) ==
    \/ contains(report, "File validation passed")
    \/ contains(report, "Successfully processed")

\* C29: whenever a file was uploaded but the report of
\* analyze_finances_with_plots is computed from sample data, because
\* process_document returned an error, the report states that sample data was
\* used and does not present the file as validated and processed.
C29_SampleDataDisclosed ==
    (Requested /\ Uploaded /\ result.data_source = "sample after error") =>
        /\ StatesSampleData(result.report)
        /\ ~PresentsFileAsProcessed(result.report)

\* a CSV file without financial columns passes the validation, is not read,
\* and the report on the sample data presents it as validated
ValidatedButSample ==
    /\ Requested
    /\ Uploaded
    /\ arg.upload.file_path = "data.csv"
    /\ IsError(process_document(arg.upload).result)
    /\ financial_data = create_sample_data(arg.now)
    /\ result.report = validation_passed_note("data.csv") \o comprehensive_report

\* a direct call of analyze_finances does state the sample data
AnalyzeFinancesDiscloses ==
    (pc = "done" /\ arg.op = "analyze_finances" /\ Uploaded
        /\ result.data_source = "sample after error") =>
        /\ StatesSampleData(result.report)
        /\ ~PresentsFileAsProcessed(result.report)

IsPdf(u) == u # NoUpload /\ lower(splitext_ext(u.file_path)) = ".pdf"

\* a request with a PDF file that process_document turns into a summary
PdfSummarised ==
    /\ Requested
    /\ IsPdf(arg.upload)
    /\ "process_document" \in Range(invoked)
    /\ ~IsError(process_document(arg.upload).result)

\* C30: a PDF upload never reaches the financial analysis: whenever
\* process_document returns a summary for it, validate_financial_content
\* returns false and analyze_finances_with_plots returns the report on
\* non-financial content.
C30_PdfNeverAnalysed ==
    PdfSummarised =>
        /\ ~validate_financial_content(process_document(arg.upload).result,
                                       arg.upload).is_financial
        /\ result.kind = "non_financial"
        /\ "analyze_finances" \notin Range(invoked)
        /\ financial_data = Nothing

\* a PDF whose amounts are no metadata: an income of 1234.56
C30_Witness ==
    /\ PdfSummarised
    /\ process_document(arg.upload).result.total_income = Fin(123456, 2)
    /\ result.kind = "non_financial"

\* the other readers' summaries do reach the analysis
TextFileAnalysed ==
    /\ Requested
    /\ Uploaded
    /\ arg.upload.file_path = "notes.txt"
    /\ result.kind = "analysis"
    /\ result.data_source = "document"

====
